---- MODULE Spec2Model ----
(***************************************************************************)
(* A model of marci-db: the document codec (marci_encoder.rs,              *)
(* marci_decoder.rs), the update engine (update_data.rs), the schema       *)
(* resolver (schema.rs) and the storage layer (marci_db.rs).               *)
(*                                                                         *)
(* Conventions.  A buffer is a sequence of bytes (0..255); the Rust index  *)
(* i is the TLA+ index i+1, and every position kept in the model           *)
(* (offset_pos, payload_offset, offsets stored in a header) is the Rust    *)
(* number.  Indices into schema.models, model.fields and the counter       *)
(* vector are 1-based here (Rust: 0-based); offset_index keeps the Rust    *)
(* number because it is what the change mask is indexed by.                *)
(***************************************************************************)
EXTENDS Integers, Sequences, FiniteSets, TLC

VARIABLES
  cstep,     \* codec run: "input", "encoded", "decoded", "updated", "stored"
  cv,        \* codec run: the JSON object given to encode_document
  cenc,      \* codec run: what encode_document returned for cv
  cdec,      \* codec run: what decode_document returned for cenc's buffer
  cdata,     \* codec run: the stored document buffer
  cpart,     \* codec run: the partial (encode result) given to update_data
  cout,      \* codec run: the buffer update_data returned for cdata and cpart
  cn         \* codec run: the number of updates stored so far, up to ChainCap

cvars == <<cstep, cv, cenc, cdec, cdata, cpart, cout, cn>>

\* the storage layer: MarciDB's schema, the trees of its database (db) and its
\* counters, whether the process is up, and per counter the greatest id its
\* tree has ever held
VARIABLES schema, db, db_counters, up, maxseen

\* the threads of the concurrent runs: the call each serves, where it stands,
\* the id it took and its result; the reader's position, its read transaction,
\* the last key it read and its rows so far; the states committed so far;
\* the trees and counters the run started with
VARIABLES call, pc, tid, tres, rpc, snap, rcur, rout, committed, booted

svars == <<schema, db, db_counters, up, maxseen>>
tvars == <<call, pc, tid, tres, rpc, snap, rcur, rout, committed, booted>>
vars == <<cvars, svars, tvars>>

\* a specification that does not run the codec chain leaves it as it is
CodecIdle ==
  /\ cstep = "idle" /\ cv = <<>> /\ cenc = <<>> /\ cdec = <<>>
  /\ cdata = <<>> /\ cpart = <<>> /\ cout = <<>> /\ cn = 0

\* a specification without a database
StoreIdle ==
  /\ schema = <<>> /\ db = <<>> /\ db_counters = <<>> /\ up = FALSE
  /\ maxseen = <<>>

\* a specification without threads
ThreadsIdle ==
  /\ call = <<>> /\ pc = <<>> /\ tid = <<>> /\ tres = <<>> /\ rpc = "idle"
  /\ snap = <<>> /\ rcur = <<>> /\ rout = <<>> /\ committed = {}
  /\ booted = <<>>

(***************************************************************************)
(* Bytes                                                                   *)
(***************************************************************************)
Slice(data, from, to) == SubSeq(data, from + 1, to)

Zeros(n) == [i \in 1..n |-> 0]

SetBytes(data, pos, bytes) ==
  [i \in 1..Len(data) |->
     IF i > pos /\ i <= pos + Len(bytes) THEN bytes[i - pos] ELSE data[i]]

\* u32::to_be_bytes
u32_to_be_bytes(n) ==
  <<(n \div 16777216) % 256, (n \div 65536) % 256, (n \div 256) % 256, n % 256>>

\* u32::from_be_bytes
u32_from_be_bytes(b) == ((b[1] * 256 + b[2]) * 256 + b[3]) * 256 + b[4]

\* u16::to_be_bytes of (n as u16)
u16_to_be_bytes(n) == <<(n \div 256) % 256, n % 256>>

u16_from_be_bytes(b) == b[1] * 256 + b[2]

\* u64::to_be_bytes, for the values below 2^24 the model uses
u64_to_be_bytes(n) ==
  <<0, 0, 0, 0, 0>> \o <<(n \div 65536) % 256, (n \div 256) % 256, n % 256>>

\* u64::from_be_bytes, defined for 8-byte words below 2^24
u64_from_be_bytes(b) == (b[6] * 256 + b[7]) * 256 + b[8]

\* i64::to_be_bytes (two's complement), for -2^23 <= n < 2^23
i64_to_be_bytes(n) ==
  IF n >= 0 THEN u64_to_be_bytes(n)
  ELSE LET m == n + 16777216
       IN <<255, 255, 255, 255, 255>>
            \o <<(m \div 65536) % 256, (m \div 256) % 256, m % 256>>

\* i64::from_be_bytes, for words i64_to_be_bytes produces
i64_from_be_bytes(b) ==
  IF b[1] >= 128 THEN ((b[6] * 256 + b[7]) * 256 + b[8]) - 16777216
  ELSE (b[6] * 256 + b[7]) * 256 + b[8]

(***************************************************************************)
(* Header access (marci_db.rs)                                             *)
(***************************************************************************)
get_offset(data, offset_pos) ==
  u32_from_be_bytes(Slice(data, offset_pos, offset_pos + 4))

set_offset(data, offset_pos, offset) ==
  SetBytes(data, offset_pos, u32_to_be_bytes(offset))

\* set_offset_null that leaves the slot as it was
OffsetLeft(data, offset_pos) == data

set_offset_null(data, offset_pos) == SetBytes(data, offset_pos, Zeros(4))

\* the header slots offset_pos+4, offset_pos+8, ... below payload_offset
SlotsAfter(from, payload_offset) ==
  {j \in from..(payload_offset - 1) : (j - from) % 4 = 0}

get_end(data, offset_pos, payload_offset) ==
  LET live == {j \in SlotsAfter(offset_pos + 4, payload_offset) :
                 get_offset(data, j) # 0}
  IN IF live = {} THEN Len(data)
     ELSE get_offset(data, CHOOSE j \in live : \A k \in live : j <= k)

\* move_offsets that leaves the slots after the field as they were
OffsetsKept(data, offset_start, offset_end, diff) == data

RECURSIVE move_offsets(_, _, _, _)
move_offsets(data, offset_start, offset_end, diff) ==
  IF offset_start >= offset_end THEN data
  ELSE LET offset == get_offset(data, offset_start)
           moved == IF offset # 0
                    THEN set_offset(data, offset_start, offset + diff)
                    ELSE data
       IN move_offsets(moved, offset_start + 4, offset_end, diff)

(***************************************************************************)
(* Update engine (update_data.rs)                                          *)
(***************************************************************************)
\* Vec::resize(new_len, 0)
Resize(data, new_len) ==
  IF new_len <= Len(data) THEN SubSeq(data, 1, new_len)
  ELSE data \o Zeros(new_len - Len(data))

\* slice::copy_within(from..to, dest), a memmove
CopyWithin(data, from, to, dest) ==
  [i \in 1..Len(data) |->
     IF i > dest /\ i <= dest + (to - from) THEN data[from + (i - dest)]
     ELSE data[i]]

shift_and_resize(data, from, to, diff) ==
  LET len == Len(data)
      new_len == len + diff
  IN IF from = len THEN Resize(data, new_len)
     ELSE IF diff > 0 THEN CopyWithin(Resize(data, new_len), from, len, to)
     ELSE Resize(CopyWithin(data, from, len, to), new_len)

\* NewOffset without the case of a field that was null
NewOffsetKept(offset, end) == offset

\* NewOffset without the case of a field that was not null
NewOffsetAtEnd(offset, end) == end

\* where the field's bytes go: a field that was null is inserted where the
\* next live field starts
NewOffset(offset, end) == IF offset = 0 THEN end ELSE offset

\* the rest of an iteration of update_data's loop: offset..end is the field's
\* span in data, update_offset..update_end its span in new_data
Splice(field, payload_offset, data, new_data, offset, end, update_offset, update_end) ==
  LET update_len == IF update_offset = 0 THEN 0 ELSE update_end - update_offset
      len == IF offset = 0 THEN 0 ELSE end - offset
      diff == update_len - len
      new_offset == NewOffset(offset, end)
      new_end == new_offset + update_len
      shifted == IF diff # 0
                 THEN move_offsets(shift_and_resize(data, end, new_end, diff),
                                   field.offset_pos + 4, payload_offset, diff)
                 ELSE data
  IN IF update_offset = 0 THEN set_offset_null(shifted, field.offset_pos)
     ELSE IF new_offset # offset
     THEN set_offset(SetBytes(shifted, new_offset,
                              Slice(new_data, update_offset, update_end)),
                     field.offset_pos, new_offset)
     ELSE SetBytes(shifted, new_offset,
                   Slice(new_data, update_offset, update_end))

\* one iteration of update_data's loop, for a field that owns a slot
UpdateField(field, payload_offset, data, new_data, changed_mask) ==
  IF ~changed_mask[field.offset_index + 1] THEN data
  ELSE IF get_offset(data, field.offset_pos) = 0
          /\ get_offset(new_data, field.offset_pos) = 0
  THEN data
  ELSE Splice(field, payload_offset, data, new_data,
              get_offset(data, field.offset_pos),
              get_end(data, field.offset_pos, payload_offset),
              get_offset(new_data, field.offset_pos),
              IF get_offset(new_data, field.offset_pos) = 0 THEN 0
              ELSE get_end(new_data, field.offset_pos, payload_offset))

RECURSIVE update_data_from(_, _, _, _, _, _)
update_data_from(k, fields, payload_offset, data, new_data, changed_mask) ==
  IF k > Len(fields) THEN data
  ELSE LET field == fields[k]
           next == IF field.offset_pos = 0 THEN data
                   ELSE UpdateField(field, payload_offset, data, new_data,
                                    changed_mask)
       IN update_data_from(k + 1, fields, payload_offset, next, new_data,
                           changed_mask)

update_data(fields, payload_offset, data, new_data, changed_mask) ==
  update_data_from(1, fields, payload_offset, data, new_data, changed_mask)

(***************************************************************************)
(* Schema resolver (schema.rs)                                             *)
(*                                                                         *)
(* The schema text is given parsed into blocks: a block is                 *)
(* [kind, name, lines], a line [name, base, list, nullable, attr], where   *)
(* base is the type name without its "?" and "[]" suffixes and attr is     *)
(* <<>>, <<"index">> or <<"derived", Model, field>>.  A tree name is a     *)
(* tuple of its dot-separated parts: <<"User">> for "User",                *)
(* <<"User", "posts">> for "User.posts", <<>> for the empty string.        *)
(***************************************************************************)
NoStruct == [name |-> <<>>, fields |-> <<>>, payload_offset |-> 0]

Line(name, base, list, nullable, attr) ==
  [name |-> name, base |-> base, list |-> list, nullable |-> nullable,
   attr |-> attr]

Block(kind, name, lines) == [kind |-> kind, name |-> name, lines |-> lines]

PrimitiveNames == {"String", "Bool", "Int", "UInt", "Float", "Double", "DateTime"}

get_primitive_type(s) ==
  CASE s = "Int" -> "Int64"
    [] s = "UInt" -> "UInt64"
    [] OTHER -> s

parse_field_raw(line) ==
  [name |-> line.name,
   ty |-> IF line.list
          THEN (IF line.base \in PrimitiveNames THEN "PrimitiveList"
                ELSE "RefListUnresolved")
          ELSE (IF line.base \in PrimitiveNames THEN "Primitive"
                ELSE "RefUnresolved"),
   prim |-> IF line.base \in PrimitiveNames THEN get_primitive_type(line.base)
            ELSE "",
   tyname |-> IF line.base \in PrimitiveNames THEN "" ELSE line.base,
   ref |-> 0,
   st |-> NoStruct,
   counter_idx |-> 0,
   offset_index |-> 0,
   offset_pos |-> 0,
   is_nullable |-> line.nullable,
   inserted_indexes |-> <<>>,
   select_index |-> <<>>,
   attributes |-> line.attr,
   derived_from |-> <<>>]

IsDerivedAttr(attr) == Len(attr) > 0 /\ attr[1] = "derived"

\* whether parse_fields gives the field a header slot
OwnsSlot(raw) == raw.ty # "RefListUnresolved" /\ ~IsDerivedAttr(raw.attributes)

\* parse_fields: the fields, each slot owner given the next offset_index
SlotsGiven(raw) ==
  LET before(k) == Cardinality({j \in 1..(k - 1) : OwnsSlot(raw[j])})
  IN [k \in 1..Len(raw) |->
        IF OwnsSlot(raw[k])
        THEN [raw[k] EXCEPT !.offset_index = before(k),
                            !.offset_pos = 3 + before(k) * 4]
        ELSE raw[k]]

parse_fields(lines) ==
  SlotsGiven([k \in 1..Len(lines) |-> parse_field_raw(lines[k])])

\* the second component parse_fields returns: the number of slots
SlotCount(lines) ==
  Cardinality({j \in 1..Len(lines) : OwnsSlot(parse_field_raw(lines[j]))})

parse_model_block(name, lines) ==
  [name |-> name, fields |-> parse_fields(lines),
   payload_offset |-> 3 + SlotCount(lines) * 4, counter_idx |-> 0]

parse_struct_block(lines) ==
  [name |-> <<>>, fields |-> parse_fields(lines),
   payload_offset |-> 3 + SlotCount(lines) * 4]

\* HashMap<String, usize> collected from (name, index) pairs: a later pair
\* with the same name replaces the earlier one
build_model_map(models) ==
  [n \in {models[i].name : i \in 1..Len(models)} |->
     CHOOSE i \in 1..Len(models) :
       models[i].name = n /\ \A j \in 1..Len(models) : models[j].name = n => j <= i]

build_field_map(models) ==
  [m \in 1..Len(models) |->
     [n \in {models[m].fields[i].name : i \in 1..Len(models[m].fields)} |->
        CHOOSE i \in 1..Len(models[m].fields) :
          models[m].fields[i].name = n
          /\ \A j \in 1..Len(models[m].fields) :
               models[m].fields[j].name = n => j <= i]]

\* the structs table: the last struct block of each name
StructTable(blocks) ==
  LET idx == {i \in 1..Len(blocks) : blocks[i].kind = "struct"}
  IN [n \in {blocks[i].name : i \in idx} |->
        parse_struct_block(
          blocks[CHOOSE i \in idx :
                   blocks[i].name = n
                   /\ \A j \in idx : blocks[j].name = n => j <= i].lines)]

\* whether resolve_field_type finds the type the field names
TypeKnown(field, model_by_name, structs) ==
  field.ty \in {"RefUnresolved", "RefListUnresolved"}
    => field.tyname \in DOMAIN structs \/ field.tyname \in DOMAIN model_by_name

resolve_field_type(field, model_by_name, structs) ==
  CASE field.ty = "RefUnresolved" ->
         IF field.tyname \in DOMAIN structs
         THEN [field EXCEPT !.ty = "Struct", !.st = structs[field.tyname]]
         ELSE [field EXCEPT !.ty = "ModelRef", !.ref = model_by_name[field.tyname]]
    [] field.ty = "RefListUnresolved" ->
         IF field.tyname \in DOMAIN structs
         THEN [field EXCEPT !.ty = "StructList", !.st = structs[field.tyname]]
         ELSE [field EXCEPT !.ty = "ModelRefList",
                            !.ref = model_by_name[field.tyname]]
    [] OTHER -> field

Direct(tree_name) == [dir |-> "Direct", tree_name |-> tree_name]
Rev(tree_name) == [dir |-> "Rev", tree_name |-> tree_name]

TreeNameOf(model_name, field_name) == <<model_name, field_name>>

\* a struct-typed field's struct gets its tree name
NamedStruct(r, model_name) ==
  IF r.ty = "Struct"
  THEN [r EXCEPT !.st.name = TreeNameOf(model_name, r.name)]
  ELSE r

\* a ModelRefList field gets its Direct index and its select_index
IndexedList(named, model_name) ==
  IF named.ty = "ModelRefList"
  THEN [named EXCEPT
          !.inserted_indexes =
             Append(@, Direct(TreeNameOf(model_name, named.name))),
          !.select_index = <<TreeNameOf(model_name, named.name)>>]
  ELSE named

\* a @derived field gets derived_from: the (model, field) it names
DerivedFrom(indexed, model_by_name, field_by_name) ==
  IF IsDerivedAttr(indexed.attributes)
  THEN [indexed EXCEPT
          !.derived_from =
             <<model_by_name[indexed.attributes[2]],
               field_by_name[model_by_name[indexed.attributes[2]]]
                            [indexed.attributes[3]]>>]
  ELSE indexed

\* the body of parse_schema's link loop for one field
LinkField(field, model_name, model_by_name, field_by_name, structs) ==
  DerivedFrom(IndexedList(NamedStruct(resolve_field_type(field, model_by_name,
                                                         structs),
                                      model_name),
                          model_name),
              model_by_name, field_by_name)

\* whether the @derived attribute names a model and a field that exist
DerivedKnown(field, model_by_name, field_by_name) ==
  IsDerivedAttr(field.attributes)
    => /\ field.attributes[2] \in DOMAIN model_by_name
       /\ field.attributes[3] \in DOMAIN field_by_name[model_by_name[field.attributes[2]]]

rev_indexes(field) ==
  LET d == SelectSeq(field.inserted_indexes, LAMBDA i : i.dir = "Direct")
  IN [k \in 1..Len(d) |-> Rev(d[k].tree_name)]

RECURSIVE ConcatAll(_)
ConcatAll(seqs) ==
  IF Len(seqs) = 0 THEN <<>> ELSE Head(seqs) \o ConcatAll(Tail(seqs))

\* the (model, field) positions in the order Schema::iter yields them
FieldRefs(models) ==
  ConcatAll([m \in 1..Len(models) |->
               [f \in 1..Len(models[m].fields) |-> <<m, f>>]])

\* parse_schema's second loop: each bound pair (a, b), a the @derived field
\* and b the field it names, gives each side the Rev indexes of the other
BindFields(linked, bindings) ==
  LET Bound(a) == linked[a[1]].fields[a[2]].derived_from
      extra(x) ==
        ConcatAll([k \in 1..Len(bindings) |->
                     (IF x = bindings[k]
                      THEN rev_indexes(linked[Bound(bindings[k])[1]]
                                         .fields[Bound(bindings[k])[2]])
                      ELSE <<>>)
                     \o (IF x = Bound(bindings[k])
                         THEN rev_indexes(linked[bindings[k][1]].fields[bindings[k][2]])
                         ELSE <<>>)])
  IN [m \in 1..Len(linked) |->
        [linked[m] EXCEPT
           !.fields = [f \in 1..Len(linked[m].fields) |->
                         [linked[m].fields[f] EXCEPT
                            !.inserted_indexes = @ \o extra(<<m, f>>)]]]]

\* parse_schema's first loop over schema.iter(): every field linked, or the
\* panic of a type or a @derived target that does not exist
LinkFields(models, structs, model_by_name, field_by_name, refs) ==
  IF \E k \in 1..Len(refs) :
       LET fld == models[refs[k][1]].fields[refs[k][2]]
       IN ~(TypeKnown(fld, model_by_name, structs)
            /\ DerivedKnown(fld, model_by_name, field_by_name))
  THEN <<>>
  ELSE <<[m \in 1..Len(models) |->
            [models[m] EXCEPT
               !.fields = [f \in 1..Len(models[m].fields) |->
                             LinkField(models[m].fields[f], models[m].name,
                                       model_by_name, field_by_name,
                                       structs)]]]>>

\* the schema of the linked models, bound
ResolvedSchema(linked, refs) ==
  IF linked = <<>> THEN [ok |-> FALSE, models |-> <<>>]
  ELSE [ok |-> TRUE,
        models |->
          BindFields(linked[1],
                     SelectSeq(refs,
                       LAMBDA a : linked[1][a[1]].fields[a[2]].derived_from # <<>>))]

\* the model blocks parsed, in the order of the text
ParsedModels(mblocks) ==
  [i \in 1..Len(mblocks) |->
     parse_model_block(mblocks[i].name, mblocks[i].lines)]

\* parse_schema after the blocks are parsed
ResolveSchema(models, structs) ==
  ResolvedSchema(LinkFields(models, structs, build_model_map(models),
                            build_field_map(models), FieldRefs(models)),
                 FieldRefs(models))

\* parse_schema: [ok |-> TRUE, models] or [ok |-> FALSE] where the code panics
parse_schema(blocks) ==
  ResolveSchema(ParsedModels(SelectSeq(blocks, LAMBDA b : b.kind = "model")),
                StructTable(blocks))

(***************************************************************************)
(* JSON values (serde_json::Value)                                         *)
(***************************************************************************)
JNull == [t |-> "null"]
JStr(s) == [t |-> "str", s |-> s]
JNum(n) == [t |-> "num", n |-> n]
JBool(b) == [t |-> "bool", b |-> b]
JObj(o) == [t |-> "obj", o |-> o]
JArr(a) == [t |-> "arr", a |-> a]

\* Value::get(key): <<v>> when the value is an object holding key, else <<>>
JGet(v, key) ==
  IF v.t = "obj" /\ key \in DOMAIN v.o THEN <<v.o[key]>> ELSE <<>>

\* item.get("id").and_then(|i| i.as_u64())
JGetU64(v, key) ==
  LET g == JGet(v, key)
  IN IF g # <<>> /\ g[1].t = "num" /\ g[1].n >= 0 THEN <<g[1].n>> ELSE <<>>

(***************************************************************************)
(* Encoder (marci_encoder.rs)                                              *)
(***************************************************************************)
Err(e) == [ok |-> FALSE, err |-> e]

TypeMismatch(field_name) == Err(<<"TypeMismatch", field_name>>)

\* encode_value: the bytes appended to dst.  Float, Double and the ISO-8601
\* string form of DateTime are outside the model.
encode_value(dst, ty, field_name, v) ==
  CASE ty = "String" ->
         IF v.t = "str" THEN [ok |-> TRUE, buf |-> dst \o v.s]
         ELSE TypeMismatch(field_name)
    [] ty \in {"Int64", "DateTime"} ->
         IF v.t = "num" THEN [ok |-> TRUE, buf |-> dst \o i64_to_be_bytes(v.n)]
         ELSE TypeMismatch(field_name)
    [] ty = "UInt64" ->
         IF v.t = "num" /\ v.n >= 0
         THEN [ok |-> TRUE, buf |-> dst \o u64_to_be_bytes(v.n)]
         ELSE TypeMismatch(field_name)
    [] ty = "Bool" ->
         IF v.t = "bool"
         THEN [ok |-> TRUE, buf |-> dst \o <<IF v.b THEN 1 ELSE 0>>]
         ELSE TypeMismatch(field_name)
    [] OTHER -> TypeMismatch(field_name)

SetBit(mask, offset_index) == [mask EXCEPT ![offset_index + 1] = TRUE]

MaxOf(S) == CHOOSE x \in S : \A y \in S : y <= x

InsertNone(st) == [kind |-> "None", st |-> st]
InsertEmpty(st) == [kind |-> "Empty", st |-> st]
InsertOne(st, changed_mask, data) ==
  [kind |-> "One", st |-> st, changed_mask |-> changed_mask, data |-> data]
InsertMany(st, counter_idx, data) ==
  [kind |-> "Many", st |-> st, counter_idx |-> counter_idx, data |-> data]
InsertConnect(field, ref_model, ids) ==
  [kind |-> "Connect", field |-> field, ref_model |-> ref_model, ids |-> ids]

\* the state of encode_document's walk
EncState(buf, mask, structs) ==
  [ok |-> TRUE, buf |-> buf, mask |-> mask, structs |-> structs]

\* the test of encode_document's last step
IsEmptyObject(buf, initial_size, structs) ==
  Len(buf) = initial_size /\ Len(structs) = 0

RECURSIVE encode_document(_, _, _)
RECURSIVE EncodeFields(_, _, _, _)
RECURSIVE EncodeItems(_, _, _, _, _)
RECURSIVE ItemEncoded(_, _, _, _, _)

\* the StructList loop after item k is encoded to r
ItemEncoded(st, items, k, vec_many, r) ==
  IF ~r.ok THEN r
  ELSE EncodeItems(st, items, k + 1,
                   Append(vec_many, [id |-> JGetU64(items[k], "id"),
                                     data |-> r.buf]),
                   r.structs)

\* the StructList loop: items k.. of value, vec_many so far, structs so far
EncodeItems(st, items, k, vec_many, structs) ==
  IF k > Len(items) THEN [ok |-> TRUE, vec_many |-> vec_many, structs |-> structs]
  ELSE ItemEncoded(st, items, k, vec_many,
                   encode_document(st, items[k], structs))

\* the walk after encode_value has returned e for the field
ValueEncoded(field, s, e) ==
  IF e.ok THEN EncState(e.buf, SetBit(s.mask, field.offset_index), s.structs)
  ELSE e

\* the walk after the body of a Struct field is encoded to r
StructEncoded(field, s, r) ==
  IF r.ok
  THEN [s EXCEPT !.structs =
          Append(r.structs, InsertOne(field.st, r.mask, r.buf))]
  ELSE r

\* the walk after the items of a StructList field are encoded to r
ListEncoded(field, s, r) ==
  IF r.ok
  THEN [s EXCEPT !.structs =
          Append(r.structs,
                 InsertMany(field.st, field.counter_idx, r.vec_many))]
  ELSE r

\* one iteration of encode_document's loop over model.fields()
EncodeField(field, obj, s) ==
  LET value == obj[field.name]
      start == Len(s.buf)
      slotted == SetBytes(s.buf, field.offset_pos, u32_to_be_bytes(start))
  IN IF field.name \notin DOMAIN obj THEN s
     ELSE IF value.t = "null" THEN
       CASE field.ty = "Struct" ->
              [s EXCEPT !.structs = Append(@, InsertNone(field.st))]
         [] field.ty \in {"StructList", "ModelRefList"} -> TypeMismatch(field.name)
         [] OTHER -> [s EXCEPT !.mask = SetBit(@, field.offset_index)]
     ELSE
       CASE field.ty = "Primitive" ->
              ValueEncoded(field, s,
                           encode_value(slotted, field.prim, field.name, value))
         [] field.ty = "ModelRef" ->
              IF value.t # "obj" \/ JGet(value, "id") = <<>>
              THEN TypeMismatch(field.name)
              ELSE ValueEncoded(field, s,
                                encode_value(slotted, "UInt64", field.name,
                                             JGet(value, "id")[1]))
         [] field.ty = "ModelRefList" ->
              IF value.t # "arr"
                 \/ \E k \in 1..Len(value.a) : JGetU64(value.a[k], "id") = <<>>
              THEN TypeMismatch(field.name)
              ELSE [s EXCEPT !.structs =
                      Append(@, InsertConnect(field, field.ref,
                                  [k \in 1..Len(value.a) |->
                                     JGetU64(value.a[k], "id")[1]]))]
         [] field.ty = "Struct" ->
              StructEncoded(field, s,
                            encode_document(field.st, value, s.structs))
         [] field.ty = "StructList" ->
              IF value.t # "arr" THEN TypeMismatch(field.name)
              ELSE IF Len(value.a) = 0
              THEN [s EXCEPT !.structs = Append(@, InsertEmpty(field.st))]
              ELSE ListEncoded(field, s,
                               EncodeItems(field.st, value.a, 1, <<>>, s.structs))
         [] OTHER -> s

EncodeFields(fields, k, obj, s) ==
  IF k > Len(fields) \/ ~s.ok THEN s
  ELSE EncodeFields(fields, k + 1, obj, EncodeField(fields[k], obj, s))

\* encode_document's last step on the state s the loop left
Encoded(s, initial_size) ==
  IF ~s.ok THEN s
  ELSE IF IsEmptyObject(s.buf, initial_size, s.structs)
  THEN Err(<<"EmptyObject">>)
  ELSE s

\* encode_document(model, json, structs): [ok, buf, mask, structs] or
\* [ok |-> FALSE, err]; a shape without fields makes max().unwrap() panic
encode_document(model, json, structs) ==
  IF json.t # "obj" THEN Err(<<"NotAnObject">>)
  ELSE IF Len(model.fields) = 0 THEN Err(<<"panic">>)
  ELSE
    LET header == Resize(<<1>> \o u16_to_be_bytes(model.payload_offset),
                         model.payload_offset)
        initial_size == Len(header)
        max_offset_index ==
          MaxOf({model.fields[k].offset_index : k \in 1..Len(model.fields)})
        mask0 == [i \in 1..(max_offset_index + 1) |-> FALSE]
    IN Encoded(EncodeFields(model.fields, 1, json.o,
                            EncState(header, mask0, structs)),
               initial_size)

(***************************************************************************)
(* Decoder (marci_decoder.rs)                                              *)
(*                                                                         *)
(* A select is [select, includes]: select[1] is the bit of "id" and        *)
(* select[k+1] the bit of fields[k].  A slice past the end of the buffer   *)
(* panics in the code: Err(<<"panic">>).                                   *)
(***************************************************************************)
Panic == Err(<<"panic">>)

InRange(data, from, to) == from <= to /\ to <= Len(data)

\* std::str::from_utf8 succeeds (the model's strings are ASCII)
IsUtf8(bytes) == \A i \in 1..Len(bytes) : bytes[i] < 128

\* the bound check decode_document makes before decoding a field
OffsetOutOfRange(offset, len) == offset >= len

\* decode_value on a String whose bytes are data[offset..end]
DecodeString(data, offset, end) ==
  IF Len(data) < 4 THEN Err(<<"BufferTooSmall">>)
  ELSE IF ~InRange(data, offset, end) THEN Panic
  ELSE IF ~IsUtf8(Slice(data, offset, end)) THEN Err(<<"Utf8Error">>)
  ELSE [ok |-> TRUE, value |-> JStr(Slice(data, offset, end))]

decode_value(ty, data, offset_pos, offset, payload_offset) ==
  CASE ty = "String" ->
         DecodeString(data, offset, get_end(data, offset_pos, payload_offset))
    [] ty \in {"Int64", "DateTime"} ->
         IF Len(data) < 8 THEN Err(<<"BufferTooSmall">>)
         ELSE IF ~InRange(data, offset, offset + 8) THEN Panic
         ELSE [ok |-> TRUE,
               value |-> JNum(i64_from_be_bytes(Slice(data, offset, offset + 8)))]
    [] ty = "UInt64" ->
         IF Len(data) < 8 THEN Err(<<"BufferTooSmall">>)
         ELSE IF ~InRange(data, offset, offset + 8) THEN Panic
         ELSE [ok |-> TRUE,
               value |-> JNum(u64_from_be_bytes(Slice(data, offset, offset + 8)))]
    [] ty = "Bool" ->
         IF Len(data) = 0 THEN Err(<<"BufferTooSmall">>)
         ELSE [ok |-> TRUE, value |-> JBool(data[offset + 1] # 0)]
    [] OTHER -> Panic

\* the loop body once the field's offset is read
DecodeAt(field, data, payload_offset, offset) ==
  IF offset = 0 THEN [ok |-> TRUE, value |-> JNull]
  ELSE IF OffsetOutOfRange(offset, Len(data)) THEN Err(<<"OffsetOutOfRange">>)
  ELSE decode_value(field.prim, data, field.offset_pos, offset, payload_offset)

\* one iteration of decode_document's loop, for a selected primitive field
DecodeField(field, data, payload_offset) ==
  DecodeAt(field, data, payload_offset, get_offset(data, field.offset_pos))

IncludeNone(field_index) == [kind |-> "None", field_index |-> field_index]
IncludeOne(field_index, val) ==
  [kind |-> "One", field_index |-> field_index, val |-> val]
IncludeMany(field_index, val) ==
  [kind |-> "Many", field_index |-> field_index, val |-> val]

IncludeValue(inc) ==
  CASE inc.kind = "None" -> JNull
    [] inc.kind = "One" -> inc.val
    [] OTHER -> JArr(inc.val)

DecodeCtx(id, data, fields, payload_offset, select, includes) ==
  [id |-> id, data |-> data, fields |-> fields, payload_offset |-> payload_offset,
   select |-> select, includes |-> includes]

\* decode_document after its header checks: res is what the loop decoded for
\* each of the chosen fields
DecodedObject(ctx, chosen, res) ==
  LET fields == ctx.fields
      failed == {k \in chosen : ~res[k].ok}
      \* Map::insert in code order: id, the fields, then the includes
      incOf(n) == CHOOSE i \in 1..Len(ctx.includes) :
                    /\ fields[ctx.includes[i].field_index].name = n
                    /\ \A j \in 1..Len(ctx.includes) :
                         fields[ctx.includes[j].field_index].name = n => j <= i
      incNames == {fields[ctx.includes[i].field_index].name :
                     i \in 1..Len(ctx.includes)}
      fldOf(n) == CHOOSE k \in chosen :
                    fields[k].name = n
                    /\ \A j \in chosen : fields[j].name = n => j <= k
      fldNames == {fields[k].name : k \in chosen}
      idNames == IF ctx.select[1] THEN {"id"} ELSE {}
  IN IF failed # {}
     THEN res[CHOOSE k \in failed : \A j \in failed : k <= j]
     ELSE [ok |-> TRUE,
           value |-> JObj([n \in idNames \cup fldNames \cup incNames |->
                             IF n \in incNames
                             THEN IncludeValue(ctx.includes[incOf(n)])
                             ELSE IF n \in fldNames THEN res[fldOf(n)].value
                             ELSE JNum(ctx.id)])]

\* decode_document's loop over the fields chosen
DecodedFields(ctx, chosen) ==
  DecodedObject(ctx, chosen,
                [k \in chosen |->
                   DecodeField(ctx.fields[k], ctx.data, ctx.payload_offset)])

decode_document(ctx) ==
  LET data == ctx.data
  IN IF Len(data) < 3 THEN Err(<<"BufferTooSmall">>)
     ELSE IF data[1] # 1 THEN Err(<<"WrongVersion">>)
     ELSE IF u16_from_be_bytes(<<data[2], data[3]>>) # ctx.payload_offset % 65536
     THEN Err(<<"TypeMismatch">>)
     ELSE IF Len(data) < ctx.payload_offset THEN Err(<<"BufferTooSmall">>)
     ELSE DecodedFields(ctx, {k \in 1..Len(ctx.fields) :
                                ctx.select[k + 1]
                                /\ ctx.fields[k].ty = "Primitive"})

(***************************************************************************)
(* Selection compiler (marci_select.rs)                                    *)
(***************************************************************************)
Select(select, includes) == [select |-> select, includes |-> includes]

\* MarciSelect::all
SelectAll(fields) == Select([i \in 1..(Len(fields) + 1) |-> TRUE], <<>>)

BindOne(offset_pos) == [kind |-> "One", offset_pos |-> offset_pos]
BindMany(tree_name) == [kind |-> "Many", tree_name |-> tree_name]
BindOneStruct == [kind |-> "OneStruct"]
BindManyStruct == [kind |-> "ManyStruct"]

Include(field_index, model, select, binding) ==
  [field_index |-> field_index, model |-> model, select |-> select,
   binding |-> binding]

\* the shape a struct is used as on the include path (WithFields for Struct)
StructShape(st) == st

RECURSIVE parse_select(_, _, _)
parse_select(fields, json, sch) ==
  IF json.t = "bool" THEN SelectAll(fields)
  ELSE
    LET keyed == {k \in 1..Len(fields) :
                    JGet(json, fields[k].name) # <<>>
                    /\ JGet(json, fields[k].name)[1] # JBool(FALSE)}
        val(k) == JGet(json, fields[k].name)[1]
        isInc(k) == fields[k].ty \in {"ModelRef", "ModelRefList", "Struct", "StructList"}
        inc(k) ==
          CASE fields[k].ty = "ModelRef" ->
                 Include(k, sch.models[fields[k].ref],
                         parse_select(sch.models[fields[k].ref].fields, val(k), sch),
                         BindOne(fields[k].offset_pos))
            [] fields[k].ty = "ModelRefList" ->
                 Include(k, sch.models[fields[k].ref],
                         parse_select(sch.models[fields[k].ref].fields, val(k), sch),
                         BindMany(fields[k].select_index[1]))
            [] fields[k].ty = "Struct" ->
                 LET sel == parse_select(fields[k].st.fields, val(k), sch)
                 IN Include(k, StructShape(fields[k].st),
                            IF val(k) = JBool(TRUE)
                            THEN [sel EXCEPT !.select[1] = FALSE] ELSE sel,
                            BindOneStruct)
            [] OTHER ->
                 Include(k, StructShape(fields[k].st),
                         parse_select(fields[k].st.fields, val(k), sch),
                         BindManyStruct)
        incIdx == {k \in keyed : isInc(k)}
        \* the includes in declaration order
        nth(i) == CHOOSE k \in incIdx : Cardinality({j \in incIdx : j < k}) = i - 1
    IN Select([i \in 1..(Len(fields) + 1) |->
                 IF i = 1 THEN JGet(json, "id") = <<JBool(TRUE)>>
                 ELSE (i - 1) \in keyed /\ ~isInc(i - 1)],
              [i \in 1..Cardinality(incIdx) |-> inc(nth(i))])

(***************************************************************************)
(* Trees of the key-value engine (canopydb, a collaborator): a tree is a   *)
(* function from keys (byte strings) to values, ordered by the keys'       *)
(* lexicographic byte order; trees maps the names of the trees that exist  *)
(* to them.  A write transaction is one atomic step: an operation that     *)
(* returns early or panics before tx.commit() leaves the trees as they     *)
(* were.                                                                   *)
(***************************************************************************)
EmptyTree == <<>>

RECURSIVE LexLess(_, _)
LexLess(a, b) ==
  IF Len(b) = 0 THEN FALSE
  ELSE IF Len(a) = 0 THEN TRUE
  ELSE IF a[1] # b[1] THEN a[1] < b[1]
  ELSE LexLess(Tail(a), Tail(b))

LexLeq(a, b) == a = b \/ LexLess(a, b)

HasPrefix(key, prefix) ==
  Len(key) >= Len(prefix) /\ SubSeq(key, 1, Len(prefix)) = prefix

TreeInsert(tree, key, value) ==
  [k \in DOMAIN tree \cup {key} |-> IF k = key THEN value ELSE tree[k]]

\* TreeDelete that removes the key and every key after it
TreeDeleteFrom(tree, key) ==
  [k \in {x \in DOMAIN tree : LexLess(x, key)} |-> tree[k]]

TreeDelete(tree, key) == [k \in DOMAIN tree \ {key} |-> tree[k]]

\* TreeDeleteRange for a range that holds no key
RangeKept(tree, lo, hi) == tree

\* Tree::delete_range(lo..hi)
TreeDeleteRange(tree, lo, hi) ==
  [k \in {x \in DOMAIN tree : ~(LexLeq(lo, x) /\ LexLess(x, hi))} |-> tree[k]]

\* the keys of a set in ascending order
RECURSIVE SortKeys(_)
SortKeys(keys) ==
  IF keys = {} THEN <<>>
  ELSE LET least == CHOOSE k \in keys : \A x \in keys : LexLeq(k, x)
       IN <<least>> \o SortKeys(keys \ {least})

\* Tree::prefix_keys(prefix), in key order
PrefixKeys(tree, prefix) ==
  SortKeys({k \in DOMAIN tree : HasPrefix(k, prefix)})

\* Tree::last(): <<key>> of the greatest key, <<>> for an empty tree
TreeLast(tree) ==
  IF DOMAIN tree = {} THEN <<>>
  ELSE <<CHOOSE k \in DOMAIN tree : \A x \in DOMAIN tree : LexLeq(x, k)>>

(***************************************************************************)
(* Storage layer (marci_db.rs): helpers                                    *)
(***************************************************************************)
\* WithFields::tree_name of a model; a struct's is its name
ModelTree(model) == <<model.name>>

make_key(a, b) == u64_to_be_bytes(a) \o u64_to_be_bytes(b)

IdKey(id) == u64_to_be_bytes(id)

\* get_value::<SIZE>: <<bytes>>, or <<>> for None
get_value(data, offset_pos, size) ==
  LET offset == get_offset(data, offset_pos)
  IN IF offset = 0 THEN <<>>
     ELSE <<Slice(data, offset, offset + size)>>

\* get_value_with_len: <<bytes>>, or <<>> for None
get_value_with_len(data, offset_pos, payload_offset) ==
  LET offset == get_offset(data, offset_pos)
  IN IF offset = 0 THEN <<>>
     ELSE <<Slice(data, offset, get_end(data, offset_pos, payload_offset))>>

ForeignKey(model, field, id) == [model |-> model, field |-> field, id |-> id]

\* whether get_foreign_keys looks at the field
IsCheckedRef(field) == field.derived_from = <<>> /\ field.ty = "ModelRef"

get_foreign_keys(data, fields, sch) ==
  LET refs == SelectSeq(fields,
                LAMBDA f : IsCheckedRef(f) /\ get_value(data, f.offset_pos, 8) # <<>>)
  IN [k \in 1..Len(refs) |->
        ForeignKey(sch.models[refs[k].ref], refs[k],
                   get_value(data, refs[k].offset_pos, 8)[1])]

\* the foreign keys one struct effect adds
StructForeignKeys(st, sch) ==
  CASE st.kind = "Connect" ->
         [k \in 1..Len(st.ids) |->
            ForeignKey(sch.models[st.ref_model], st.field, IdKey(st.ids[k]))]
    [] st.kind = "Many" ->
         ConcatAll([k \in 1..Len(st.data) |->
                      get_foreign_keys(st.data[k].data, st.st.fields, sch)])
    [] st.kind = "One" -> get_foreign_keys(st.data, st.st.fields, sch)
    [] OTHER -> <<>>

collect_foreign_keys(data, fields, structs, sch) ==
  get_foreign_keys(data, fields, sch)
    \o ConcatAll([k \in 1..Len(structs) |-> StructForeignKeys(structs[k], sch)])

ForeignKeyViolation(name, id) == Err(<<"ForeignKeyViolation", name, id>>)

ItemNotFound(id) == Err(<<"ItemNotFound", id>>)

\* whether the referenced row exists
KeyExists(trees, fk) == fk.id \in DOMAIN trees[ModelTree(fk.model)]

\* a check that looks no key up
KeysUnchecked(trees, foreign_keys) == [ok |-> TRUE]

\* check_foreign_keys: [ok |-> TRUE], or the violation of the first foreign
\* key whose row is missing
check_foreign_keys(trees, foreign_keys) ==
  LET bad == {k \in 1..Len(foreign_keys) : ~KeyExists(trees, foreign_keys[k])}
      first == CHOOSE k \in bad : \A j \in bad : k <= j
  IN IF \E k \in 1..Len(foreign_keys) :
          ModelTree(foreign_keys[k].model) \notin DOMAIN trees
     THEN Panic
     ELSE IF bad = {} THEN [ok |-> TRUE]
     ELSE ForeignKeyViolation(foreign_keys[first].field.name,
                              u64_from_be_bytes(foreign_keys[first].id))

\* find_by_direct: the second halves of the keys that start with item_id
find_by_direct(trees, tree_name, item_id) ==
  LET keys == PrefixKeys(trees[tree_name], IdKey(item_id))
  IN [k \in 1..Len(keys) |-> SubSeq(keys[k], 9, Len(keys[k]))]

IndexData(tree_name, key) == [tree_name |-> tree_name, key |-> key]

\* IndexKey with the key of a Direct index for every index
IndexKeyDirect(index, value, item_id) == IdKey(item_id) \o value

\* the key get_indexes builds for one index of a field
IndexKey(index, value, item_id) ==
  IF index.dir = "Rev" THEN value \o IdKey(item_id) ELSE IdKey(item_id) \o value

\* whether get_indexes takes the indexes of the field
IsIndexed(field, mask) ==
  /\ field.offset_pos # 0
  /\ Len(field.inserted_indexes) > 0
  /\ (mask # <<>> => mask[1][field.offset_index + 1])

\* the index entries of the fields fs that get_indexes has kept
IndexesOf(fs, data, item_id, payload_offset) ==
  ConcatAll([k \in 1..Len(fs) |->
     [i \in 1..Len(fs[k].inserted_indexes) |->
        IndexData(fs[k].inserted_indexes[i].tree_name,
                  IndexKey(fs[k].inserted_indexes[i],
                           get_value_with_len(data, fs[k].offset_pos,
                                              payload_offset)[1],
                           item_id))]])

\* get_indexes(data, item_id, model, mask); mask is <<>> (None) or <<m>>
get_indexes(data, item_id, model, mask) ==
  IndexesOf(SelectSeq(model.fields,
              LAMBDA f : IsIndexed(f, mask)
                         /\ get_value_with_len(data, f.offset_pos,
                                               model.payload_offset) # <<>>),
            data, item_id, model.payload_offset)

\* the loops that write or delete a list of index entries
RECURSIVE WriteIndexes(_, _)
WriteIndexes(trees, indexes) ==
  IF Len(indexes) = 0 THEN trees
  ELSE WriteIndexes(
         [trees EXCEPT ![indexes[1].tree_name] = TreeInsert(@, indexes[1].key, <<1>>)],
         Tail(indexes))

RECURSIVE DeleteIndexes(_, _)
DeleteIndexes(trees, indexes) ==
  IF Len(indexes) = 0 THEN trees
  ELSE DeleteIndexes(
         [trees EXCEPT ![indexes[1].tree_name] = TreeDelete(@, indexes[1].key)],
         Tail(indexes))

\* the entries insert_indexes writes
ConnectEntries(field, id, ids) ==
  ConcatAll([i \in 1..Len(field.inserted_indexes) |->
     [k \in 1..Len(ids) |->
        IndexData(field.inserted_indexes[i].tree_name,
                  IF field.inserted_indexes[i].dir = "Direct"
                  THEN make_key(id, ids[k]) ELSE make_key(ids[k], id))]])

insert_indexes(trees, field, id, ids) ==
  IF Len(ids) = 0 THEN trees ELSE WriteIndexes(trees, ConnectEntries(field, id, ids))

\* the key remove_indexes deletes from a Rev tree for a key found by the
\* Direct scan
RevKeyRemoved(key, id) == key

\* remove_indexes(tx, field, id); the caller has checked a Direct index exists
remove_indexes(trees, field, id) ==
  LET direct == SelectSeq(field.inserted_indexes, LAMBDA i : i.dir = "Direct")
      revs == SelectSeq(field.inserted_indexes, LAMBDA i : i.dir = "Rev")
      keys == find_by_direct(trees, direct[1].tree_name, id)
      revGone ==
        DeleteIndexes(trees,
          ConcatAll([r \in 1..Len(revs) |->
             [k \in 1..Len(keys) |->
                IndexData(revs[r].tree_name, RevKeyRemoved(keys[k], id))]]))
      RECURSIVE DropDirect(_, _)
      DropDirect(t, ds) ==
        IF Len(ds) = 0 THEN t
        ELSE DropDirect(
               [t EXCEPT ![ds[1].tree_name] =
                  TreeDeleteRange(@, IdKey(id), IdKey(id + 1))],
               Tail(ds))
  IN IF Len(field.inserted_indexes) = 0 THEN trees
     ELSE IF Len(revs) > 0 /\ Len(keys) = 0 THEN trees
     ELSE DropDirect(IF Len(revs) > 0 THEN revGone ELSE trees, direct)

\* get_max_id: [ok |-> TRUE, id], or a panic when the last key is not 8 bytes
get_max_id(tree) ==
  LET last == TreeLast(tree)
  IN IF last = <<>> THEN [ok |-> TRUE, id |-> 1]
     ELSE IF Len(last[1]) # 8 THEN Panic
     ELSE [ok |-> TRUE, id |-> u64_from_be_bytes(last[1]) + 1]

(***************************************************************************)
(* Storage layer (marci_db.rs): MarciDB::new, insert_data, update, delete  *)
(*                                                                         *)
(* An operation maps the trees and the counters to                         *)
(* [trees, counters, res]; res is [ok |-> TRUE, ...] or an error.          *)
(***************************************************************************)
\* Transaction::get_or_create_tree
GetOrCreate(trees, name) ==
  IF name \in DOMAIN trees THEN trees
  ELSE [n \in DOMAIN trees \cup {name} |->
          IF n = name THEN EmptyTree ELSE trees[n]]

RECURSIVE CreateAll(_, _)
CreateAll(trees, names) ==
  IF Len(names) = 0 THEN trees
  ELSE CreateAll(GetOrCreate(trees, names[1]), Tail(names))

\* IndexTreesCreated with no tree created for an index
NoIndexTrees(field) == <<>>

\* the trees MarciDB::new creates for the indexes of a field: the Direct ones
IndexTreesCreated(field) ==
  LET d == SelectSeq(field.inserted_indexes, LAMBDA i : i.dir = "Direct")
  IN [k \in 1..Len(d) |-> d[k].tree_name]

\* MarciDB::new, the loop over the fields of one model from field k on
RECURSIVE NewFields(_, _, _)
NewFields(acc, fields, k) ==
  IF k > Len(fields) \/ ~acc.ok THEN acc
  ELSE
    LET field == fields[k]
        t1 == CreateAll(acc.trees, IndexTreesCreated(field))
        t2 == IF field.ty \in {"Struct", "StructList"}
              THEN GetOrCreate(t1, field.st.name) ELSE t1
        max_id == get_max_id(t2[field.st.name])
    IN IF field.ty = "StructList"
       THEN IF ~max_id.ok THEN Panic
            ELSE NewFields(
                   [acc EXCEPT
                      !.trees = t2,
                      !.counters = Append(@, max_id.id),
                      !.fields = Append(@, [field EXCEPT
                                              !.counter_idx = Len(acc.counters) + 1])],
                   fields, k + 1)
       ELSE NewFields([acc EXCEPT !.trees = t2, !.fields = Append(@, field)],
                      fields, k + 1)

\* MarciDB::new, the loop over the models from model m on
RECURSIVE NewModels(_, _, _)
RECURSIVE FieldsStarted(_, _, _, _)
NewModels(acc, models, m) ==
  IF m > Len(models) \/ ~acc.ok THEN acc
  ELSE
    LET model == models[m]
        t1 == GetOrCreate(acc.trees, ModelTree(model))
        max_id == get_max_id(t1[ModelTree(model)])
    IN IF ~max_id.ok THEN Panic
       ELSE FieldsStarted(acc, models, m,
                          NewFields([ok |-> TRUE, trees |-> t1,
                                     counters |-> Append(acc.counters, max_id.id),
                                     fields |-> <<>>],
                                    model.fields, 1))

\* the loop over the models after the fields of model m are gone through
FieldsStarted(acc, models, m, f) ==
  IF ~f.ok THEN Panic
  ELSE NewModels(
         [acc EXCEPT
            !.trees = f.trees,
            !.counters = f.counters,
            !.models = Append(@, [models[m] EXCEPT
                                    !.fields = f.fields,
                                    !.counter_idx = Len(acc.counters) + 1])],
         models, m + 1)

\* MarciDB::new(schema) on the trees the data directory holds:
\* [ok |-> TRUE, trees, counters, models], or a panic
MarciDB_new(sch, trees) ==
  NewModels([ok |-> TRUE, trees |-> trees, counters |-> <<>>, models |-> <<>>],
            sch.models, 1)

\* a load of the counter that leaves it as it is
FetchKeep(counters, counter_idx) ==
  [id |-> counters[counter_idx], counters |-> counters]

\* AtomicU64::fetch_add(1): the value returned and the value left
FetchAdd(counters, counter_idx) ==
  [id |-> counters[counter_idx],
   counters |-> [counters EXCEPT ![counter_idx] = @ + 1]]

OpResult(trees, counters, res) ==
  [trees |-> trees, counters |-> counters, res |-> res]

\* the indexes insert_data and update collect before the transaction
CollectIndexes(data, id, model, structs) ==
  get_indexes(data, id, model, <<>>)
    \o ConcatAll([k \in 1..Len(structs) |->
                    IF structs[k].kind = "One"
                    THEN get_indexes(structs[k].data, id, structs[k].st, <<>>)
                    ELSE <<>>])

\* the id of a struct-list element: the supplied one, else the counter's
ItemId(item, counters, counter_idx) ==
  IF item.id # <<>> THEN item.id[1] ELSE counters[counter_idx]

\* the InsertStruct::Many loop of insert_data and update, from element k on;
\* acc is [trees, counters, indexes]
RECURSIVE WriteMany(_, _, _, _)
WriteMany(acc, st, id, k) ==
  IF k > Len(st.data) THEN acc
  ELSE
    LET item == st.data[k]
        item_id == ItemId(item, acc.counters, st.counter_idx)
    IN WriteMany(
         [trees |-> [acc.trees EXCEPT ![st.st.name] =
                       TreeInsert(@, make_key(id, item_id), item.data)],
          counters |-> IF item.id # <<>> THEN acc.counters
                       ELSE FetchAdd(acc.counters, st.counter_idx).counters,
          indexes |-> acc.indexes \o get_indexes(item.data, item_id, st.st, <<>>)],
         st, id, k + 1)

\* the trees a struct effect opens with get_tree(..).unwrap().unwrap()
StructTrees(st) ==
  CASE st.kind = "Connect" ->
         IF Len(st.ids) = 0 THEN {}
         ELSE {st.field.inserted_indexes[i].tree_name :
                 i \in 1..Len(st.field.inserted_indexes)}
    [] OTHER -> {st.st.name}

\* the loop of insert_data over the struct effects, from effect k on
RECURSIVE InsertStructs(_, _, _, _)
InsertStructs(acc, structs, id, k) ==
  IF k > Len(structs) THEN acc
  ELSE
    LET st == structs[k]
        next ==
          CASE st.kind = "Many" -> WriteMany(acc, st, id, 1)
            [] st.kind = "One" ->
                 [acc EXCEPT !.trees[st.st.name] = TreeInsert(@, IdKey(id), st.data)]
            [] st.kind = "Connect" ->
                 [acc EXCEPT !.trees = insert_indexes(@, st.field, id, st.ids)]
            [] OTHER -> acc
    IN InsertStructs(next, structs, id, k + 1)

\* the end of insert_data: acc is what the struct effects left, the indexes
\* are written and the transaction commits
InsertWritten(trees, counters, id, acc) ==
  IF \E k \in 1..Len(acc.indexes) : acc.indexes[k].tree_name \notin DOMAIN trees
  THEN OpResult(trees, counters, Panic)
  ELSE OpResult(WriteIndexes(acc.trees, acc.indexes), acc.counters,
                [ok |-> TRUE, id |-> id])

\* insert_data after check_foreign_keys has returned checked
InsertChecked(trees, counters, model, id, data, structs, checked) ==
  LET opened == {ModelTree(model)}
                  \cup UNION {IF structs[j].kind \in {"Many", "One", "Connect"}
                              THEN StructTrees(structs[j]) ELSE {} :
                                j \in 1..Len(structs)}
  IN IF ~checked.ok THEN OpResult(trees, counters, checked)
     ELSE IF ~(opened \subseteq DOMAIN trees)
     THEN OpResult(trees, counters, Panic)
     ELSE InsertWritten(trees, counters, id,
            InsertStructs([trees |-> [trees EXCEPT ![ModelTree(model)] =
                                        TreeInsert(@, IdKey(id), data)],
                           counters |-> counters,
                           indexes |-> CollectIndexes(data, id, model, structs)],
                          structs, id, 1))

\* the part of insert_data inside the write transaction, the id being taken
insert_tx(trees, counters, sch, model, id, data, structs) ==
  InsertChecked(trees, counters, model, id, data, structs,
                check_foreign_keys(trees,
                  collect_foreign_keys(data, model.fields, structs, sch)))

\* MarciDB::insert_data: next_id, then the write transaction
insert_data(trees, counters, sch, model, data, structs) ==
  LET n == FetchAdd(counters, model.counter_idx)
  IN insert_tx(trees, n.counters, sch, model, n.id, data, structs)

\* update's state after the InsertStruct::Many loop has left w
ManyWritten(acc, w) ==
  [acc EXCEPT !.trees = w.trees, !.counters = w.counters, !.indexes = w.indexes]

\* the loop of update over the struct effects, from effect k on;
\* acc is [ok, trees, counters, indexes, indexes_to_remove]
RECURSIVE UpdateStructs(_, _, _, _)
UpdateStructs(acc, structs, id, k) ==
  IF k > Len(structs) \/ ~acc.ok THEN acc
  ELSE
    LET st == structs[k]
        next ==
          CASE st.kind = "Empty" ->
                 [acc EXCEPT !.trees[st.st.name] =
                    TreeDeleteRange(@, IdKey(id), IdKey(id + 1))]
            [] st.kind = "Many" ->
                 ManyWritten(acc,
                             WriteMany([trees |-> acc.trees,
                                        counters |-> acc.counters,
                                        indexes |-> acc.indexes], st, id, 1))
            [] st.kind = "One" ->
                 IF IdKey(id) \in DOMAIN acc.trees[st.st.name]
                 THEN [acc EXCEPT
                         !.trees[st.st.name] =
                            TreeInsert(@, IdKey(id),
                              update_data(st.st.fields, st.st.payload_offset,
                                          acc.trees[st.st.name][IdKey(id)],
                                          st.data, st.changed_mask)),
                         !.indexes_to_remove =
                            @ \o get_indexes(acc.trees[st.st.name][IdKey(id)], id,
                                             st.st, <<st.changed_mask>>)]
                 ELSE [acc EXCEPT !.trees[st.st.name] =
                         TreeInsert(@, IdKey(id), st.data)]
            [] st.kind = "Connect" ->
                 IF Len(st.field.inserted_indexes) > 0
                    /\ \A i \in 1..Len(st.field.inserted_indexes) :
                         st.field.inserted_indexes[i].dir # "Direct"
                 THEN [acc EXCEPT !.ok = FALSE]
                 ELSE [acc EXCEPT !.trees =
                         insert_indexes(remove_indexes(@, st.field, id),
                                        st.field, id, st.ids)]
            [] st.kind = "None" ->
                 [acc EXCEPT !.trees[st.st.name] = TreeDelete(@, IdKey(id))]
            [] OTHER -> acc
    IN UpdateStructs(next, structs, id, k + 1)

\* the end of update: acc is what the struct effects left, the indexes are
\* deleted and written and the transaction commits
UpdateWritten(trees, counters, id, acc) ==
  IF ~acc.ok
     \/ (\E k \in 1..Len(acc.indexes) :
           acc.indexes[k].tree_name \notin DOMAIN trees)
     \/ (\E k \in 1..Len(acc.indexes_to_remove) :
           acc.indexes_to_remove[k].tree_name \notin DOMAIN trees)
  THEN OpResult(trees, counters, Panic)
  ELSE OpResult(WriteIndexes(DeleteIndexes(acc.trees, acc.indexes_to_remove),
                             acc.indexes),
                acc.counters, [ok |-> TRUE, id |-> id])

\* update after check_foreign_keys has returned checked
UpdateChecked(trees, counters, model, id, new_data, changed_mask, structs, checked) ==
  LET tree == trees[ModelTree(model)]
      data == tree[IdKey(id)]
      opened == {ModelTree(model)}
                  \cup UNION {StructTrees(structs[j]) \cup
                                (IF structs[j].kind = "Connect"
                                 THEN {structs[j].field.inserted_indexes[i].tree_name :
                                         i \in 1..Len(structs[j].field.inserted_indexes)}
                                 ELSE {}) : j \in 1..Len(structs)}
  IN IF ~checked.ok THEN OpResult(trees, counters, checked)
     ELSE IF ModelTree(model) \notin DOMAIN trees THEN OpResult(trees, counters, Panic)
     ELSE IF IdKey(id) \notin DOMAIN tree
     THEN OpResult(trees, counters, ItemNotFound(id))
     ELSE IF ~(opened \subseteq DOMAIN trees) THEN OpResult(trees, counters, Panic)
     ELSE UpdateWritten(trees, counters, id,
            UpdateStructs(
              [ok |-> TRUE,
               trees |-> [trees EXCEPT ![ModelTree(model)] =
                            TreeInsert(@, IdKey(id),
                              update_data(model.fields, model.payload_offset,
                                          data, new_data, changed_mask))],
               counters |-> counters,
               indexes |-> CollectIndexes(new_data, id, model, structs),
               indexes_to_remove |->
                 get_indexes(data, id, model, <<changed_mask>>)],
              structs, id, 1))

\* MarciDB::update
update(trees, counters, sch, model, id, new_data, changed_mask, structs) ==
  UpdateChecked(trees, counters, model, id, new_data, changed_mask, structs,
                check_foreign_keys(trees,
                  collect_foreign_keys(new_data, model.fields, structs, sch)))

\* DeleteFinds for a Tree::delete that reports every key as found
DeleteFindsAny(tree, id) == TRUE

\* whether delete finds the row (Tree::delete returns true)
DeleteFinds(tree, id) == IdKey(id) \in DOMAIN tree

\* MarciDB::delete
delete(trees, counters, model, id) ==
  IF ModelTree(model) \notin DOMAIN trees THEN OpResult(trees, counters, Panic)
  ELSE IF ~DeleteFinds(trees[ModelTree(model)], id)
  THEN OpResult(trees, counters, [ok |-> TRUE, deleted |-> FALSE])
  ELSE OpResult([trees EXCEPT ![ModelTree(model)] = TreeDelete(@, IdKey(id))],
                counters, [ok |-> TRUE, deleted |-> TRUE])

\* the tree an include reads: WithFields::tree_name of its model or struct
IncludeTree(include) ==
  IF include.binding.kind \in {"One", "Many"} THEN ModelTree(include.model)
  ELSE include.model.name

\* the results of a sequence of reads, or the first panic among them
Collected(results) ==
  IF \E k \in 1..Len(results) : ~results[k].ok THEN Panic
  ELSE [ok |-> TRUE, value |-> [k \in 1..Len(results) |-> results[k].value]]

\* MarciDB::process_data with f = decode_document(ctx).unwrap(), on the trees
\* of a read transaction: [ok |-> TRUE, value], or a panic
RECURSIVE process_data(_, _, _, _, _)
process_data(id, data, rx, select, model) ==
  LET one(include) ==
        LET item_id == get_value(data, include.binding.offset_pos, 8)
            nested == IncludeTree(include)
        IN IF item_id = <<>>
           THEN [ok |-> TRUE, inc |-> IncludeNone(include.field_index)]
           ELSE IF nested \notin DOMAIN rx \/ item_id[1] \notin DOMAIN rx[nested]
           THEN Panic
           ELSE LET item == process_data(u64_from_be_bytes(item_id[1]),
                                         rx[nested][item_id[1]], rx,
                                         include.select, include.model)
                IN IF ~item.ok THEN Panic
                   ELSE [ok |-> TRUE,
                         inc |-> IncludeOne(include.field_index, item.value)]
      many(include) ==
        LET keys == find_by_direct(rx, include.binding.tree_name, id)
            nested == IncludeTree(include)
            items == Collected(
                       [k \in 1..Len(keys) |->
                          IF keys[k] \notin DOMAIN rx[nested] THEN Panic
                          ELSE process_data(u64_from_be_bytes(keys[k]),
                                            rx[nested][keys[k]], rx,
                                            include.select, include.model)])
        IN IF include.binding.tree_name \notin DOMAIN rx THEN Panic
           ELSE IF Len(keys) = 0
           THEN [ok |-> TRUE, inc |-> IncludeMany(include.field_index, <<>>)]
           ELSE IF nested \notin DOMAIN rx \/ ~items.ok THEN Panic
           ELSE [ok |-> TRUE,
                 inc |-> IncludeMany(include.field_index, items.value)]
      oneStruct(include) ==
        LET st_tree == IncludeTree(include)
        IN IF st_tree \notin DOMAIN rx THEN Panic
           ELSE IF IdKey(id) \notin DOMAIN rx[st_tree]
           THEN [ok |-> TRUE, inc |-> IncludeNone(include.field_index)]
           ELSE LET item == process_data(id, rx[st_tree][IdKey(id)], rx,
                                         include.select, include.model)
                IN IF ~item.ok THEN Panic
                   ELSE [ok |-> TRUE,
                         inc |-> IncludeOne(include.field_index, item.value)]
      manyStruct(include) ==
        LET st_tree == IncludeTree(include)
            keys == PrefixKeys(rx[st_tree], IdKey(id))
            items == Collected(
                       [k \in 1..Len(keys) |->
                          IF Len(keys[k]) # 16 THEN Panic
                          ELSE process_data(
                                 u64_from_be_bytes(SubSeq(keys[k], 9, 16)),
                                 rx[st_tree][keys[k]], rx,
                                 include.select, include.model)])
        IN IF st_tree \notin DOMAIN rx \/ ~items.ok THEN Panic
           ELSE [ok |-> TRUE,
                 inc |-> IncludeMany(include.field_index, items.value)]
      result(include) ==
        CASE include.binding.kind = "One" -> one(include)
          [] include.binding.kind = "Many" -> many(include)
          [] include.binding.kind = "OneStruct" -> oneStruct(include)
          [] OTHER -> manyStruct(include)
      results == [k \in 1..Len(select.includes) |-> result(select.includes[k])]
      doc == decode_document(
               DecodeCtx(id, data, model.fields, model.payload_offset,
                         select.select,
                         [k \in 1..Len(results) |-> results[k].inc]))
  IN IF \E k \in 1..Len(results) : ~results[k].ok THEN Panic
     ELSE IF ~doc.ok THEN Panic
     ELSE doc

\* MarciDB::get_all on the trees of the read transaction it begins
get_all(rx, model, select) ==
  LET keys == SortKeys(DOMAIN rx[ModelTree(model)])
  IN IF ModelTree(model) \notin DOMAIN rx THEN Panic
     ELSE Collected([k \in 1..Len(keys) |->
                       IF Len(keys[k]) # 8 THEN Panic
                       ELSE process_data(u64_from_be_bytes(keys[k]),
                                         rx[ModelTree(model)][keys[k]], rx,
                                         select, model)])

(***************************************************************************)
(* Codec runs: encode_document, decode_document and chains of update_data  *)
(* on the model of update_data.rs's test,                                  *)
(*   model User { name String; surname String; age Int }                   *)
(***************************************************************************)
ChainCap == 2

CodecBlocks ==
  <<Block("model", "User",
          <<Line("name", "String", FALSE, FALSE, <<>>),
            Line("surname", "String", FALSE, FALSE, <<>>),
            Line("age", "Int", FALSE, FALSE, <<>>)>>)>>

CodecModel == parse_schema(CodecBlocks).models[1]

Bob == <<66, 111, 98>>
Bobber == <<66, 111, 98, 98, 101, 114>>
Tester == <<84, 101, 115, 116, 101, 114>>

\* the values a codec run gives each field (a key may also be absent)
CodecValues(name) ==
  CASE name = "name" -> {JNull, JStr(<<>>), JStr(Bob), JStr(Bobber)}
    [] name = "surname" -> {JNull, JStr(<<>>), JStr(Tester)}
    [] OTHER -> {JNull, JNum(30), JNum(80)}

CodecNames == {"name", "surname", "age"}

\* every JSON object keyed by primitive fields with values of their types
CodecInputs ==
  UNION {{o \in [D -> UNION {CodecValues(n) : n \in CodecNames}] :
            \A n \in D : o[n] \in CodecValues(n)} : D \in SUBSET CodecNames}

\* every field selected, the id left out
AllFields(fields) == Select([i \in 1..(Len(fields) + 1) |-> i > 1], <<>>)

Decode(data, select) ==
  decode_document(DecodeCtx(0, data, CodecModel.fields,
                            CodecModel.payload_offset, select.select, <<>>))

NoResult == [ok |-> FALSE, err |-> <<"none">>]

CodecInit ==
  /\ StoreIdle /\ ThreadsIdle
  /\ cstep = "input"
  /\ cv \in CodecInputs
  /\ cenc = NoResult
  /\ cdec = NoResult
  /\ cdata = <<>>
  /\ cpart = NoResult
  /\ cout = <<>>
  /\ cn = 0

\* encode_document(model, v, [])
EncodeStep ==
  /\ cstep = "input"
  /\ cenc' = encode_document(CodecModel, JObj(cv), <<>>)
  /\ cdata' = IF cenc'.ok THEN cenc'.buf ELSE <<>>
  /\ cstep' = "encoded"
  /\ UNCHANGED <<cv, cdec, cpart, cout, cn>>
  /\ UNCHANGED <<svars, tvars>>

\* decode_document on what encode_document returned, every field selected
DecodeStep ==
  /\ cstep = "encoded"
  /\ cdec' = IF cenc.ok THEN Decode(cdata, AllFields(CodecModel.fields)) ELSE cenc
  /\ cstep' = "decoded"
  /\ UNCHANGED <<cv, cenc, cdata, cpart, cout, cn>>
  /\ UNCHANGED <<svars, tvars>>

\* update_data on the stored document and the encoded partial e
PartEncoded(e) ==
  /\ e.ok
  /\ cpart' = e
  /\ cout' = update_data(CodecModel.fields, CodecModel.payload_offset,
                         cdata, e.buf, e.mask)

\* update_data(fields, payload_offset, data, new_data, changed_mask) on the
\* stored document and the partial encode_document makes of p
UpdateStep(p) ==
  /\ \/ cstep = "decoded" /\ cenc.ok
     \/ cstep = "stored"
  /\ PartEncoded(encode_document(CodecModel, JObj(p), <<>>))
  /\ cstep' = "updated"
  /\ cv' = <<>> /\ cenc' = NoResult /\ cdec' = NoResult
  /\ UNCHANGED <<cdata, cn>>
  /\ UNCHANGED <<svars, tvars>>

\* a change mask with every bit set
AllOnes(model) ==
  [i \in 1..(MaxOf({model.fields[k].offset_index :
                      k \in 1..Len(model.fields)}) + 1) |-> TRUE]

\* update_data(fields, payload_offset, data, data, mask): the stored document
\* given as its own partial, with every bit of the mask set
SelfUpdateStep ==
  /\ \/ cstep = "decoded" /\ cenc.ok
     \/ cstep = "stored"
  /\ cpart' = EncState(cdata, AllOnes(CodecModel), <<>>)
  /\ cout' = update_data(CodecModel.fields, CodecModel.payload_offset,
                         cdata, cdata, AllOnes(CodecModel))
  /\ cstep' = "updated"
  /\ cv' = <<>> /\ cenc' = NoResult /\ cdec' = NoResult
  /\ UNCHANGED <<cdata, cn>>
  /\ UNCHANGED <<svars, tvars>>

\* the caller stores the returned buffer (MarciDB::update, tree.insert)
StoreStep ==
  /\ cstep = "updated"
  /\ cdata' = cout
  /\ cn' = IF cn < ChainCap THEN cn + 1 ELSE cn
  /\ cstep' = "stored"
  /\ cpart' = NoResult /\ cout' = <<>>
  /\ UNCHANGED <<cv, cenc, cdec>>
  /\ UNCHANGED <<svars, tvars>>

CodecNext ==
  \/ EncodeStep
  \/ DecodeStep
  \/ \E p \in CodecInputs : UpdateStep(p)
  \/ SelfUpdateStep
  \/ StoreStep

SpecCodec == CodecInit /\ [][CodecNext]_vars

(***************************************************************************)
(* Claims about the codec and the update engine                            *)
(***************************************************************************)
\* v with the fields it does not key reported as null
WithNulls(v) == [n \in CodecNames |-> IF n \in DOMAIN v THEN v[n] ELSE JNull]

\* C8: for every JSON object v keyed by primitive fields with values of their
\* types, decode_document on encode_document(v), every field selected,
\* succeeds and returns v with the absent fields null.
C8_RoundTrip ==
  cstep = "decoded" => cdec.ok /\ cdec.value = JObj(WithNulls(cv))

\* the select of the fields whose change-mask bit is clear
Unmasked(fields, mask) ==
  Select([i \in 1..(Len(fields) + 1) |->
            i > 1 /\ ~mask[fields[i - 1].offset_index + 1]], <<>>)

\* C9: every field whose mask bit is clear decodes from
\* update_data(data, new, mask) to what it decodes to from data.
C9_UnmaskedPreserved ==
  cstep = "updated" =>
    Decode(cout, Unmasked(CodecModel.fields, cpart.mask))
      = Decode(cdata, Unmasked(CodecModel.fields, cpart.mask))

\* the header slots of a shape, in slot order
Slots(model) == {model.fields[k].offset_pos : k \in 1..Len(model.fields)} \ {0}

\* the number of payload bytes of a fixed-width primitive, 0 for a string
FixedWidth(prim) ==
  CASE prim \in {"Int64", "UInt64", "DateTime", "Double"} -> 8
    [] prim = "Float" -> 4
    [] prim = "Bool" -> 1
    [] OTHER -> 0

\* where a field's payload ends: its width when fixed, else the next live offset
FieldEnd(model, field, data) ==
  IF FixedWidth(field.prim) > 0
  THEN get_offset(data, field.offset_pos) + FixedWidth(field.prim)
  ELSE get_end(data, field.offset_pos, model.payload_offset)

\* whether update_data is to leave the field null
NullAfter(field, data, part) ==
  IF part.mask[field.offset_index + 1]
  THEN get_offset(part.buf, field.offset_pos) = 0
  ELSE get_offset(data, field.offset_pos) = 0

\* C10: in every buffer update_data returns, also after a chain of updates,
\* the non-zero header offsets are non-decreasing in slot order, each lies in
\* [payload_offset, len], the offset is 0 exactly for the null fields, and the
\* last non-null field ends at the end of the buffer.
C10_HeaderInvariant ==
  cstep = "updated" =>
    LET m == CodecModel
        live == {k \in 1..Len(m.fields) :
                   get_offset(cout, m.fields[k].offset_pos) # 0}
    IN /\ \A j, k \in live :
            j < k => get_offset(cout, m.fields[j].offset_pos)
                       <= get_offset(cout, m.fields[k].offset_pos)
       /\ \A k \in live :
            /\ m.payload_offset <= get_offset(cout, m.fields[k].offset_pos)
            /\ get_offset(cout, m.fields[k].offset_pos) <= Len(cout)
       /\ \A k \in 1..Len(m.fields) :
            (k \notin live) <=> NullAfter(m.fields[k], cdata, cpart)
       /\ live # {} => FieldEnd(m, m.fields[MaxOf(live)], cout) = Len(cout)
       /\ live = {} => Len(cout) = m.payload_offset

\* C10's case: a second update in a chain that clears name, empties surname
\* and sets age, leaving header offsets 0, 15, 15
C10_Witness ==
  /\ cstep = "updated"
  /\ cn >= 1
  /\ get_offset(cout, 3) = 0
  /\ get_offset(cout, 7) = 15
  /\ get_offset(cout, 11) = 15
  /\ get_offset(cdata, 3) = 15
  /\ Len(cout) = 23

\* C11: for every well-formed document data (what encode_document returned,
\* or what a chain of updates left), update_data(data, data, mask with every
\* bit set) returns a buffer byte-equal to data.
C11_SelfUpdateIdentity ==
  (/\ cstep = "updated"
   /\ cpart.buf = cdata
   /\ \A i \in DOMAIN cpart.mask : cpart.mask[i])
    => cout = cdata

\* C11's case: a document a chain of updates left, with name and a later
\* field live, given to update_data as its own partial
C11_Witness ==
  /\ cstep = "updated"
  /\ cn >= 1
  /\ cpart.buf = cdata
  /\ \A i \in DOMAIN cpart.mask : cpart.mask[i]
  /\ get_offset(cdata, 3) # 0
  /\ get_offset(cdata, 11) # 0
  /\ cout = cdata

\* the body that addresses one field only, with the value v
Only(name, v) == JObj([n \in {name} |-> v])

\* encode_document accepted the body (it returned e) with the field's change
\* bit set, and update_data with it leaves the field cleared
ClearsField(field, e) ==
  /\ e.ok
  /\ e.mask[field.offset_index + 1]
  /\ cstep = "stored" =>
       get_offset(update_data(CodecModel.fields, CodecModel.payload_offset,
                              cdata, e.buf, e.mask),
                  field.offset_pos) = 0

\* the same for the empty string: update_data leaves the field live and empty
EmptiesField(field, e) ==
  /\ e.ok
  /\ e.mask[field.offset_index + 1]
  /\ cstep = "stored" =>
       LET out == update_data(CodecModel.fields, CodecModel.payload_offset,
                              cdata, e.buf, e.mask)
       IN /\ get_offset(out, field.offset_pos) # 0
          /\ get_end(out, field.offset_pos, CodecModel.payload_offset)
               = get_offset(out, field.offset_pos)

\* C16: an update whose body addresses a field only with explicit null (or
\* only with an empty string), and nothing else, is accepted by
\* encode_document with that field's change bit set, and after the update
\* the field is cleared (offset 0) respectively holds the empty string.
C16_NullOnlyAccepted ==
  \A k \in 1..Len(CodecModel.fields) :
    /\ ClearsField(CodecModel.fields[k],
                   encode_document(CodecModel,
                                   Only(CodecModel.fields[k].name, JNull), <<>>))
    /\ CodecModel.fields[k].prim = "String" =>
         EmptiesField(CodecModel.fields[k],
                      encode_document(CodecModel,
                                      Only(CodecModel.fields[k].name, JStr(<<>>)),
                                      <<>>))

\* the select of one field
OnlyField(fields, k) ==
  Select([i \in 1..(Len(fields) + 1) |-> i = k + 1], <<>>)

\* the number of payload bytes a document holds for a field
SpanLen(data, field, payload_offset) ==
  IF get_offset(data, field.offset_pos) = 0 THEN 0
  ELSE get_end(data, field.offset_pos, payload_offset)
         - get_offset(data, field.offset_pos)

\* the value a partial document carries for a field, read off its bytes
Carried(field, new, payload_offset) ==
  IF get_offset(new, field.offset_pos) = 0 THEN JNull
  ELSE IF field.prim = "String"
  THEN JStr(Slice(new, get_offset(new, field.offset_pos),
                  get_end(new, field.offset_pos, payload_offset)))
  ELSE JNum(i64_from_be_bytes(Slice(new, get_offset(new, field.offset_pos),
                                    get_offset(new, field.offset_pos) + 8)))

\* the sum over the masked fields k.. of (new length - old length)
RECURSIVE GrowthFrom(_, _, _, _, _)
GrowthFrom(k, model, data, new, mask) ==
  IF k > Len(model.fields) THEN 0
  ELSE (IF mask[model.fields[k].offset_index + 1]
        THEN SpanLen(new, model.fields[k], model.payload_offset)
               - SpanLen(data, model.fields[k], model.payload_offset)
        ELSE 0)
       + GrowthFrom(k + 1, model, data, new, mask)

\* what decode_document reads for field k alone is the value new carries
ReadsCarried(model, k, out, new) ==
  Decode(out, OnlyField(model.fields, k))
    = [ok |-> TRUE,
       value |-> JObj([n \in {model.fields[k].name} |->
                         Carried(model.fields[k], new, model.payload_offset)])]

\* C19: for every field whose mask bit is set, the value decoded from
\* update_data(data, new, mask) is the value new carries (null when new's
\* offset is 0), whatever the field was in data, and the result is as long
\* as data plus the sum over the masked fields of (new length - old length).
C19_MaskedReplaced ==
  cstep = "updated" =>
    /\ \A k \in 1..Len(CodecModel.fields) :
         cpart.mask[CodecModel.fields[k].offset_index + 1] =>
           ReadsCarried(CodecModel, k, cout, cpart.buf)
    /\ Len(cout) = Len(cdata)
                     + GrowthFrom(1, CodecModel, cdata, cpart.buf, cpart.mask)

\* update_data.rs's test: {name:"Bob"} encoded, then updated with {age:30}
BobAged ==
  LET first == encode_document(CodecModel, JObj([name |-> JStr(Bob)]), <<>>)
      second == encode_document(CodecModel, JObj([age |-> JNum(30)]), <<>>)
  IN update_data(CodecModel.fields, CodecModel.payload_offset,
                 first.buf, second.buf, second.mask)

\* the test's further update
BobberTester ==
  encode_document(CodecModel,
                  JObj([name |-> JStr(Bobber), surname |-> JStr(Tester)]), <<>>)

\* C20: from the document {name:"Bob"} updated with {age:30} (header offsets
\* [15, 0, 18], 26 bytes), a further update with {name:"Bobber",
\* surname:"Tester"} yields header offsets [15, 21, 27] and 33 bytes.
C20_BobberTester ==
  /\ <<get_offset(BobAged, 3), get_offset(BobAged, 7), get_offset(BobAged, 11),
       Len(BobAged)>> = <<15, 0, 18, 26>>
  /\ (cstep = "updated" /\ cdata = BobAged /\ cpart = BobberTester) =>
       <<get_offset(cout, 3), get_offset(cout, 7), get_offset(cout, 11),
         Len(cout)>> = <<15, 21, 27, 33>>

\* C20's case: the test's chain, the first update stored and the second made
C20_Witness ==
  /\ cstep = "updated"
  /\ cn = 1
  /\ cdata = BobAged
  /\ cpart = BobberTester
  /\ Slice(cout, 15, 21) = Bobber
  /\ Slice(cout, 21, 27) = Tester
  /\ Slice(cout, 27, 35) = i64_to_be_bytes(30)

\* C20 with the length update_data returns: the header offsets are
\* [15, 21, 27] and the document is 35 bytes long, the 15 of the header, the
\* 6 of each string and the 8 of age.
C20_BobberTesterAged ==
  /\ <<get_offset(BobAged, 3), get_offset(BobAged, 7), get_offset(BobAged, 11),
       Len(BobAged)>> = <<15, 0, 18, 26>>
  /\ (cstep = "updated" /\ cdata = BobAged /\ cpart = BobberTester) =>
       <<get_offset(cout, 3), get_offset(cout, 7), get_offset(cout, 11),
         Len(cout)>> = <<15, 21, 27, 35>>

\* the document after the update that encode_document made of a body
Updated(data, part) ==
  update_data(CodecModel.fields, CodecModel.payload_offset,
              data, part.buf, part.mask)

\* the test's third update
NameClearedSurnameEmptied ==
  encode_document(CodecModel,
                  JObj([name |-> JNull, surname |-> JStr(<<>>),
                        age |-> JNum(80)]), <<>>)

\* a masked field: cleared when the partial's offset is 0, emptied when the
\* partial holds no byte for it; an unmasked one holds the bytes it held
FieldSettled(field, payload_offset, data, part, out) ==
  IF part.mask[field.offset_index + 1]
  THEN /\ get_offset(part.buf, field.offset_pos) = 0 =>
            get_offset(out, field.offset_pos) = 0
       /\ (/\ get_offset(part.buf, field.offset_pos) # 0
            /\ SpanLen(part.buf, field, payload_offset) = 0) =>
            /\ get_offset(out, field.offset_pos) # 0
            /\ SpanLen(out, field, payload_offset) = 0
  ELSE Carried(field, out, payload_offset) = Carried(field, data, payload_offset)

\* C21: update_data distinguishes clearing from emptying: a masked field
\* whose partial offset is 0 ends with header offset 0 and its old bytes
\* removed, a masked field set to the empty string ends with a non-zero
\* offset and no payload byte, and the other fields hold the values they
\* held; on the S3 document the update {name:null, surname:"", age:80}
\* yields offsets [0, 15, 15] and length 23.
C21_ClearedOrEmptied ==
  cstep = "updated" =>
    /\ \A k \in 1..Len(CodecModel.fields) :
         FieldSettled(CodecModel.fields[k], CodecModel.payload_offset,
                      cdata, cpart, cout)
    /\ Len(cout) = Len(cdata)
                     + GrowthFrom(1, CodecModel, cdata, cpart.buf, cpart.mask)
    /\ (cdata = Updated(BobAged, BobberTester) /\ cpart = NameClearedSurnameEmptied) =>
         <<get_offset(cout, 3), get_offset(cout, 7), get_offset(cout, 11),
           Len(cout)>> = <<0, 15, 15, 23>>

\* C21's case: the test's chain, two updates stored and the third made
C21_Witness ==
  /\ cstep = "updated"
  /\ cn = 2
  /\ cdata = Updated(BobAged, BobberTester)
  /\ cpart = NameClearedSurnameEmptied
  /\ get_offset(cout, 3) = 0
  /\ SpanLen(cout, CodecModel.fields[2], CodecModel.payload_offset) = 0
  /\ Slice(cout, 15, 23) = i64_to_be_bytes(80)

\* the result is one of the DecodeError kinds
IsDecodeError(r) ==
  /\ ~r.ok
  /\ r.err[1] \in {"WrongVersion", "BufferTooSmall", "Utf8Error",
                    "TypeMismatch", "OffsetOutOfRange"}

\* the buffers a stored document turns into when its tail is cut off, its
\* version byte is changed or its header u16 is zeroed
Damaged(data) ==
  {Slice(data, 0, n) : n \in 0..Len(data)}
    \cup (IF Len(data) >= 3
          THEN {SetBytes(data, 0, <<2>>), SetBytes(data, 1, <<0, 0>>)}
          ELSE {})

\* decode_document on the buffer, every field selected, answers as the
\* header checks say and never fails outside DecodeError
DecodesOrErrs(data, r) ==
  /\ r.ok \/ IsDecodeError(r)
  /\ (Len(data) < 3 \/ Len(data) < CodecModel.payload_offset) =>
       ~r.ok /\ r.err[1] \in {"BufferTooSmall", "WrongVersion", "TypeMismatch"}
  /\ Len(data) < 3 => r.err[1] = "BufferTooSmall"
  /\ (Len(data) >= 3 /\ data[1] # 1) => ~r.ok /\ r.err[1] = "WrongVersion"
  /\ (/\ Len(data) >= 3 /\ data[1] = 1
       /\ u16_from_be_bytes(<<data[2], data[3]>>) # CodecModel.payload_offset) =>
       ~r.ok /\ r.err[1] = "TypeMismatch"

\* C32: for every byte buffer decode_document returns either a value or a
\* DecodeError and never fails any other way: BufferTooSmall when the length
\* is under 3 or under payload_offset, WrongVersion when byte 0 is not 1,
\* TypeMismatch when the header u16 differs from the shape's payload_offset,
\* and an error when a selected field's offset or fixed-width value reaches
\* past the end of the buffer.
C32_DecodeTotal ==
  \A data \in Damaged(cdata) :
    DecodesOrErrs(data, Decode(data, AllFields(CodecModel.fields)))

(***************************************************************************)
(* The HTTP facade (main.rs): a call is what a request asks of the storage *)
(* layer; the handler encodes the body and calls insert_data or update     *)
(* with the struct effects the encoder collected.                          *)
(***************************************************************************)
InsertCall(m, json) == [op |-> "insert", model |-> m, id |-> 0, json |-> json]
UpdateCall(m, id, json) == [op |-> "update", model |-> m, id |-> id, json |-> json]
DeleteCall(m, id) == [op |-> "delete", model |-> m, id |-> id, json |-> JNull]

\* the insert and update routes once the body is encoded to enc
HandleBody(sch, trees, counters, c, enc) ==
  IF ~enc.ok THEN OpResult(trees, counters, enc)
  ELSE IF c.op = "insert"
  THEN insert_data(trees, counters, sch, sch.models[c.model], enc.buf,
                   enc.structs)
  ELSE update(trees, counters, sch, sch.models[c.model], c.id, enc.buf,
              enc.mask, enc.structs)

\* handle(): POST insert, POST update and POST delete on the model
handle(sch, trees, counters, c) ==
  IF c.op \in {"insert", "update"}
  THEN HandleBody(sch, trees, counters, c,
                  encode_document(sch.models[c.model], c.json, <<>>))
  ELSE delete(trees, counters, sch.models[c.model], c.id)

(***************************************************************************)
(* Sequential runs of the storage layer: one caller, calls in any order,   *)
(* and restarts of the process on the same data directory.                 *)
(***************************************************************************)
\* the greatest id a run lets a counter issue
MaxId == 2

Ids == 1..MaxId

\* the counters of a schema: <<tree name, width of the parent prefix>>
CounterTrees(sch) ==
  LET perModel(m) ==
        <<<<ModelTree(sch.models[m]), 0>>>>
          \o [k \in 1..Len(SelectSeq(sch.models[m].fields,
                                      LAMBDA f : f.ty = "StructList")) |->
                <<SelectSeq(sch.models[m].fields,
                            LAMBDA f : f.ty = "StructList")[k].st.name, 8>>]
  IN ConcatAll([m \in 1..Len(sch.models) |-> perModel(m)])

\* the ids the tree of counter i holds: model ids, or local ids of a struct list
HeldIds(sch, trees, i) ==
  LET t == CounterTrees(sch)[i]
  IN {u64_from_be_bytes(SubSeq(k, t[2] + 1, t[2] + 8)) : k \in DOMAIN trees[t[1]]}

Max2(a, b) == IF a >= b THEN a ELSE b

\* maxseen after a call: the greatest id each counter's tree has held so far
Seen(sch, trees, seen) ==
  [i \in DOMAIN seen |->
     IF HeldIds(sch, trees, i) = {} THEN seen[i]
     ELSE Max2(seen[i], MaxOf(HeldIds(sch, trees, i)))]

\* the state main() starts serving in, MarciDB::new having returned started
Booted(started) ==
  /\ schema = [models |-> started.models]
  /\ db = started.trees
  /\ db_counters = started.counters
  /\ up = TRUE
  /\ maxseen = [i \in DOMAIN started.counters |-> 0]

\* main(): parse_schema, then MarciDB::new on an empty data directory
StoreInit(blocks) ==
  /\ CodecIdle /\ ThreadsIdle
  /\ Booted(MarciDB_new(parse_schema(blocks), <<>>))

\* the state a call leaves whose handler has returned r
Served(r) ==
  /\ db' = r.trees
  /\ db_counters' = r.counters
  /\ maxseen' = Seen(schema, r.trees, maxseen)

\* the handler serves call c to the end; its result goes to the client
Serve(c) ==
  /\ Served(handle(schema, db, db_counters, c))
  /\ UNCHANGED <<schema, up>>
  /\ UNCHANGED <<cvars, tvars>>

\* an insert, while the model's counter is within the run's bound
Insert(m, json) ==
  /\ up
  /\ db_counters[schema.models[m].counter_idx] <= MaxId
  /\ Serve(InsertCall(m, json))

\* an update and a delete, while the process is up
Update(m, id, json) ==
  /\ up
  /\ Serve(UpdateCall(m, id, json))

Delete(m, id) ==
  /\ up
  /\ Serve(DeleteCall(m, id))

\* the state a restart leaves, MarciDB::new having returned started
Restarted(started) ==
  /\ up' = started.ok
  /\ db_counters' = IF started.ok THEN started.counters ELSE db_counters
  /\ db' = IF started.ok THEN started.trees ELSE db

\* the process stops and main() runs MarciDB::new on the data directory
Restart ==
  /\ up
  /\ Restarted(MarciDB_new(schema, db))
  /\ UNCHANGED <<schema, maxseen>>
  /\ UNCHANGED <<cvars, tvars>>

(***************************************************************************)
(* Runs on a blog:                                                         *)
(*   model User { name String; posts Post[] @derived(Post.author) }        *)
(*   model Post { title String; author User }                              *)
(***************************************************************************)
BlogBlocks ==
  <<Block("model", "User",
          <<Line("name", "String", FALSE, FALSE, <<>>),
            Line("posts", "Post", TRUE, FALSE, <<"derived", "Post", "author">>)>>),
    Block("model", "Post",
          <<Line("title", "String", FALSE, FALSE, <<>>),
            Line("author", "User", FALSE, FALSE, <<>>)>>)>>

JId(i) == JObj([id |-> JNum(i)])

\* the bodies of the requests on User (model 1)
UserBodies ==
  {JObj([name |-> JStr(<<97>>)])}
    \cup {JObj([name |-> JStr(<<97>>), posts |-> JArr(<<JId(i)>>)]) : i \in Ids}

\* the bodies of the requests on Post (model 2)
PostBodies ==
  {JObj([title |-> JStr(<<116>>)]),
   JObj([title |-> JStr(<<116>>), author |-> JNull])}
    \cup {JObj([title |-> JStr(<<116>>), author |-> JId(i)]) : i \in Ids}

BlogBodies(m) == IF m = 1 THEN UserBodies ELSE PostBodies

BlogNext ==
  \/ \E m \in 1..2 : \E json \in BlogBodies(m) : Insert(m, json)
  \/ \E m \in 1..2 : \E id \in Ids : \E json \in BlogBodies(m) : Update(m, id, json)
  \/ \E m \in 1..2 : \E id \in Ids : Delete(m, id)
  \/ Restart

BlogInit == StoreInit(BlogBlocks)

SpecBlog == BlogInit /\ [][BlogNext]_vars

(***************************************************************************)
(* Runs on the blog that only insert: users, and posts that name an author *)
(***************************************************************************)
\* the bodies of the inserts: a user with a name, a post with a title and an
\* author
FeedBodies(m) ==
  IF m = 1 THEN {JObj([name |-> JStr(<<c>>)]) : c \in {97, 98}}
  ELSE {JObj([title |-> JStr(<<c>>), author |-> JId(i)]) :
          c \in {116, 117}, i \in Ids}

FeedNext == \E m \in 1..2 : \E json \in FeedBodies(m) : Insert(m, json)

FeedInit == StoreInit(BlogBlocks)

SpecFeed == FeedInit /\ [][FeedNext]_vars

(***************************************************************************)
(* Runs on a bidirectional list relation:                                  *)
(*   model Student { name String; courses Course[] }                       *)
(*   model Course { title String; students Student[]                       *)
(*                  @derived(Student.courses) }                            *)
(***************************************************************************)
RelBlocks ==
  <<Block("model", "Student",
          <<Line("name", "String", FALSE, FALSE, <<>>),
            Line("courses", "Course", TRUE, FALSE, <<>>)>>),
    Block("model", "Course",
          <<Line("title", "String", FALSE, FALSE, <<>>),
            Line("students", "Student", TRUE, FALSE,
                 <<"derived", "Student", "courses">>)>>)>>

\* the id lists a Connect is given: empty, one id, or every id
IdLists == {<<>>} \cup {<<i>> : i \in Ids} \cup {[i \in Ids |-> i]}

JIds(ids) == JArr([k \in 1..Len(ids) |-> JId(ids[k])])

\* the bodies of the requests on Student (model 1) and on Course (model 2)
RelBodies(m) ==
  IF m = 1
  THEN {JObj([name |-> JStr(<<97>>)])}
         \cup {JObj([name |-> JStr(<<97>>), courses |-> JIds(l)]) : l \in IdLists}
  ELSE {JObj([title |-> JStr(<<116>>)])}
         \cup {JObj([title |-> JStr(<<116>>), students |-> JIds(l)]) : l \in IdLists}

RelNext ==
  \/ \E m \in 1..2 : \E json \in RelBodies(m) : Insert(m, json)
  \/ \E m \in 1..2 : \E id \in Ids : \E json \in RelBodies(m) : Update(m, id, json)

RelInit == StoreInit(RelBlocks)

SpecRel == RelInit /\ [][RelNext]_vars

(***************************************************************************)
(* Runs on a model with an embedded struct that refers to a model:         *)
(*   model User { name String }                                            *)
(*   struct Meta { note String; owner User }                               *)
(*   model Post { title String; meta Meta }                                *)
(***************************************************************************)
MetaBlocks ==
  <<Block("model", "User",
          <<Line("name", "String", FALSE, FALSE, <<>>)>>),
    Block("struct", "Meta",
          <<Line("note", "String", FALSE, FALSE, <<>>),
            Line("owner", "User", FALSE, FALSE, <<>>)>>),
    Block("model", "Post",
          <<Line("title", "String", FALSE, FALSE, <<>>),
            Line("meta", "Meta", FALSE, FALSE, <<>>)>>)>>

\* the struct bodies a request gives for meta
MetaValues ==
  {JObj([note |-> JStr(<<110>>)])}
    \cup {JObj([note |-> JStr(<<110>>), owner |-> JId(i)]) : i \in Ids}

\* the bodies of the requests on User (model 1) and on Post (model 2)
MetaBodies(m) ==
  IF m = 1
  THEN {JObj([name |-> JStr(<<97>>)])}
  ELSE {JObj([title |-> JStr(<<116>>)]),
        JObj([title |-> JStr(<<116>>), meta |-> JNull])}
         \cup {JObj([title |-> JStr(<<116>>), meta |-> v]) : v \in MetaValues}

MetaNext ==
  \/ \E m \in 1..2 : \E json \in MetaBodies(m) : Insert(m, json)
  \/ \E m \in 1..2 : \E id \in Ids : \E json \in MetaBodies(m) : Update(m, id, json)
  \/ \E m \in 1..2 : \E id \in Ids : Delete(m, id)

MetaInit == StoreInit(MetaBlocks)

SpecMeta == MetaInit /\ [][MetaNext]_vars

(***************************************************************************)
(* Runs on a schema that declares the model User twice:                    *)
(*   model User { name String; age Int }                                   *)
(*   model User { email String }                                           *)
(* A request names its model; get_model finds the first of the name.       *)
(***************************************************************************)
DupBlocks ==
  <<Block("model", "User",
          <<Line("name", "String", FALSE, FALSE, <<>>),
            Line("age", "Int", FALSE, FALSE, <<>>)>>),
    Block("model", "User",
          <<Line("email", "String", FALSE, FALSE, <<>>)>>)>>

DupBodies ==
  {JObj([name |-> JStr(<<c>>)]) : c \in {97, 98, 99}}
    \cup {JObj([name |-> JStr(<<c>>), age |-> JNum(30)]) : c \in {97, 98}}

DupNext ==
  \/ \E json \in DupBodies : Insert(1, json)
  \/ \E id \in Ids : \E json \in DupBodies : Update(1, id, json)
  \/ \E id \in Ids : Delete(1, id)
  \/ Restart

DupInit == StoreInit(DupBlocks)

SpecDup == DupInit /\ [][DupNext]_vars

(***************************************************************************)
(* Runs on a model with two lists of embedded structs:                     *)
(*   struct Tag { label String }                                           *)
(*   model Post { title String; tags Tag[]; notes Tag[] }                  *)
(* A request writes the label "t" through tags and "n" through notes; the  *)
(* process may be restarted on the rows the requests left.                 *)
(***************************************************************************)
TagBlocks ==
  <<Block("struct", "Tag",
          <<Line("label", "String", FALSE, FALSE, <<>>)>>),
    Block("model", "Post",
          <<Line("title", "String", FALSE, FALSE, <<>>),
            Line("tags", "Tag", TRUE, FALSE, <<>>),
            Line("notes", "Tag", TRUE, FALSE, <<>>)>>)>>

\* a list of one element with the label c: without an id, or with the id 1
TagLists(c) ==
  {JArr(<<JObj([label |-> JStr(<<c>>)])>>),
   JArr(<<JObj([id |-> JNum(1), label |-> JStr(<<c>>)])>>)}

\* an element without any field of the struct, alone and after a sibling
\* list
BareNotes ==
  {JObj([title |-> JStr(<<116>>), notes |-> JArr(<<JObj(<<>>)>>)]),
   JObj([title |-> JStr(<<116>>),
         tags |-> JArr(<<JObj([label |-> JStr(<<116>>)])>>),
         notes |-> JArr(<<JObj(<<>>)>>)])}

\* the bodies of the inserts
TagInserts ==
  {JObj([title |-> JStr(<<116>>)])}
    \cup {JObj([title |-> JStr(<<116>>), tags |-> l]) : l \in TagLists(116)}
    \cup {JObj([title |-> JStr(<<116>>), notes |-> l]) : l \in TagLists(110)}
    \cup {JObj([title |-> JStr(<<116>>), tags |-> l[1], notes |-> l[2]]) :
            l \in TagLists(116) \X TagLists(110)}
    \cup BareNotes

\* the bodies of the updates: a list is emptied, or its element 1 rewritten
TagUpdates ==
  {JObj([tags |-> JArr(<<>>)]), JObj([notes |-> JArr(<<>>)]),
   JObj([tags |-> JArr(<<JObj([id |-> JNum(1), label |-> JStr(<<116>>)])>>)]),
   JObj([notes |-> JArr(<<JObj([id |-> JNum(1), label |-> JStr(<<110>>)])>>)])}

TagNext ==
  \/ \E json \in TagInserts : Insert(1, json)
  \/ \E id \in Ids : \E json \in TagUpdates : Update(1, id, json)
  \/ \E id \in Ids : Delete(1, id)
  \/ Restart

TagInit == StoreInit(TagBlocks)

SpecTags == TagInit /\ [][TagNext]_vars

(***************************************************************************)
(* Runs on a model that refers to itself from both sides of a relation:    *)
(*   model Node { name String; parent Node;                                *)
(*                children Node[] @derived(Node.parent) }                  *)
(***************************************************************************)
TreeBlocks ==
  <<Block("model", "Node",
          <<Line("name", "String", FALSE, FALSE, <<>>),
            Line("parent", "Node", FALSE, FALSE, <<>>),
            Line("children", "Node", TRUE, FALSE,
                 <<"derived", "Node", "parent">>)>>)>>

\* the bodies of the requests: a name, with a parent (or null) or a list of
\* children or both
TreeBodies ==
  {JObj([name |-> JStr(<<97>>)]),
   JObj([name |-> JStr(<<97>>), parent |-> JNull])}
    \cup {JObj([name |-> JStr(<<97>>), parent |-> JId(i)]) : i \in Ids}
    \cup {JObj([name |-> JStr(<<97>>), children |-> JArr(<<JId(i)>>)]) :
            i \in Ids}
    \cup {JObj([name |-> JStr(<<97>>), parent |-> p,
                children |-> JArr(<<JId(i)>>)]) :
            p \in {JNull, JId(2)}, i \in Ids}

TreeNext ==
  \/ \E json \in TreeBodies : Insert(1, json)
  \/ \E id \in Ids : \E json \in TreeBodies : Update(1, id, json)

TreeInit == StoreInit(TreeBlocks)

SpecTree == TreeInit /\ [][TreeNext]_vars

(***************************************************************************)
(* Runs on every schema of a family: the schemas above, and one with a     *)
(* single reference on both sides of a relation,                           *)
(*   model Husband { name String; wife Wife }                              *)
(*   model Wife { name String; husband Husband @derived(Husband.wife) }    *)
(* An insert gives every primitive field a value, or every field a value;  *)
(* rows are deleted and the process restarted in between.                  *)
(***************************************************************************)
PairBlocks ==
  <<Block("model", "Husband",
          <<Line("name", "String", FALSE, FALSE, <<>>),
            Line("wife", "Wife", FALSE, FALSE, <<>>)>>),
    Block("model", "Wife",
          <<Line("name", "String", FALSE, FALSE, <<>>),
            Line("husband", "Husband", FALSE, FALSE,
                 <<"derived", "Husband", "wife">>)>>)>>

SchemaFamily ==
  {BlogBlocks, RelBlocks, MetaBlocks, TagBlocks, TreeBlocks, PairBlocks,
   CodecBlocks}

\* the names of the fields of a shape that hold a primitive
PrimitivesOf(shape) ==
  {shape.fields[k].name :
     k \in {j \in 1..Len(shape.fields) : shape.fields[j].ty = "Primitive"}}

\* the value a request gives a primitive of the type prim
PrimitiveValue(prim) == IF prim = "String" THEN JStr(<<97>>) ELSE JNum(30)

\* the field of the shape that has the name n
FieldNamed(shape, n) ==
  shape.fields[CHOOSE k \in 1..Len(shape.fields) : shape.fields[k].name = n]

\* an object that gives every primitive field of the shape a value
PlainObject(shape) ==
  JObj([n \in PrimitivesOf(shape) |-> PrimitiveValue(FieldNamed(shape, n).prim)])

\* the value a request gives a field: row 1 for a reference, a list of one
\* element for a list, the struct's primitives for a struct
FieldValue(field) ==
  CASE field.ty = "Primitive" -> PrimitiveValue(field.prim)
    [] field.ty = "ModelRef" -> JId(1)
    [] field.ty = "ModelRefList" -> JArr(<<JId(1)>>)
    [] field.ty = "Struct" -> PlainObject(field.st)
    [] OTHER -> JArr(<<PlainObject(field.st)>>)

\* an object that gives every field of the model a value
FullObject(model) ==
  JObj([n \in {model.fields[k].name : k \in 1..Len(model.fields)} |->
          FieldValue(FieldNamed(model, n))])

FamilyBodies(model) == {PlainObject(model), FullObject(model)}

FamilyNext ==
  \/ \E m \in 1..Len(schema.models) :
       \E json \in FamilyBodies(schema.models[m]) : Insert(m, json)
  \/ \E m \in 1..Len(schema.models) : \E id \in Ids : Delete(m, id)
  \/ Restart

FamilyInit == \E blocks \in SchemaFamily : StoreInit(blocks)

SpecFamily == FamilyInit /\ [][FamilyNext]_vars

(***************************************************************************)
(* Runs on a model with an embedded struct and a struct list:              *)
(*   struct Meta { note String; mark String }                              *)
(*   struct Tag { label String }                                           *)
(*   model Post { title String; meta Meta; tags Tag[] }                    *)
(***************************************************************************)
CardBlocks ==
  <<Block("struct", "Meta",
          <<Line("note", "String", FALSE, FALSE, <<>>),
            Line("mark", "String", FALSE, FALSE, <<>>)>>),
    Block("struct", "Tag",
          <<Line("label", "String", FALSE, FALSE, <<>>)>>),
    Block("model", "Post",
          <<Line("title", "String", FALSE, FALSE, <<>>),
            Line("meta", "Meta", FALSE, FALSE, <<>>),
            Line("tags", "Tag", TRUE, FALSE, <<>>)>>)>>

\* a struct-list element with the label c, without an id or with the id i
TagItem(c) == JObj([label |-> JStr(<<c>>)])
TagItemAt(i, c) == JObj([id |-> JNum(i), label |-> JStr(<<c>>)])

\* the bodies of the inserts
CardInserts ==
  {JObj([title |-> JStr(<<116>>)]),
   JObj([title |-> JStr(<<116>>),
         meta |-> JObj([note |-> JStr(<<110>>), mark |-> JStr(<<109>>)])]),
   JObj([title |-> JStr(<<116>>), tags |-> JArr(<<TagItem(108)>>)]),
   JObj([title |-> JStr(<<116>>),
         meta |-> JObj([note |-> JStr(<<110>>)]),
         tags |-> JArr(<<TagItem(108), TagItem(108)>>)])}

\* the bodies of the updates: the struct is given in part, given whole or
\* set to null; the list is emptied, an element is rewritten or added
CardUpdates ==
  {JObj([meta |-> JObj([note |-> JStr(<<120, 120>>)])]),
   JObj([meta |-> JObj([mark |-> JStr(<<>>)])]),
   JObj([meta |-> JNull]),
   JObj([tags |-> JArr(<<>>)]),
   JObj([tags |-> JArr(<<TagItemAt(1, 122)>>)]),
   JObj([tags |-> JArr(<<TagItem(121)>>)])}

\* an update, while the counters are within the run's bound
Revise(id, json) ==
  /\ \A i \in DOMAIN db_counters : db_counters[i] <= MaxId + 1
  /\ Update(1, id, json)

CardNext ==
  \/ \E json \in CardInserts : Insert(1, json)
  \/ \E id \in Ids : \E json \in CardUpdates : Revise(id, json)
  \/ \E id \in Ids : Delete(1, id)

CardInit == StoreInit(CardBlocks)

SpecCard == CardInit /\ [][CardNext]_vars

(***************************************************************************)
(* get_all step by step on the self-referring model Node: the requests of  *)
(* the runs above build the rows, cycles among them; then one findMany is  *)
(* served.  snap is its read transaction, rcur the calls of process_data   *)
(* still to make, each <<id, data, select, model>>, and rout the ids of the  *)
(* calls made.                                                             *)
(***************************************************************************)
WalkSelectors ==
  {JBool(TRUE),
   JObj([id |-> JBool(TRUE), name |-> JBool(TRUE)]),
   JObj([parent |-> JBool(TRUE)]),
   JObj([children |-> JBool(TRUE)]),
   JObj([parent |-> JObj([parent |-> JObj([parent |-> JBool(TRUE)])])]),
   JObj([children |-> JObj([parent |-> JObj([children |-> JBool(TRUE)])])]),
   JObj([parent |-> JObj([id |-> JBool(TRUE)]),
         children |-> JObj([children |-> JBool(TRUE)])])}

Frame(id, data, select, model) ==
  [id |-> id, data |-> data, select |-> select, model |-> model]

\* the rows an include of the call reads: their keys in the include's tree,
\* or a panic when the tree is not there
IncludeKeys(rx, fr, include) ==
  CASE include.binding.kind = "One" ->
         [ok |-> TRUE,
          keys |-> get_value(fr.data, include.binding.offset_pos, 8)]
    [] include.binding.kind = "Many" ->
         IF include.binding.tree_name \notin DOMAIN rx THEN Panic
         ELSE [ok |-> TRUE,
               keys |-> find_by_direct(rx, include.binding.tree_name, fr.id)]
    [] include.binding.kind = "OneStruct" ->
         IF IncludeTree(include) \notin DOMAIN rx THEN Panic
         ELSE [ok |-> TRUE,
               keys |-> IF IdKey(fr.id) \in DOMAIN rx[IncludeTree(include)]
                        THEN <<IdKey(fr.id)>> ELSE <<>>]
    [] OTHER ->
         IF IncludeTree(include) \notin DOMAIN rx THEN Panic
         ELSE [ok |-> TRUE,
               keys |-> PrefixKeys(rx[IncludeTree(include)], IdKey(fr.id))]

\* the id process_data is called with for the row at key
CalledId(include, fr, key) ==
  CASE include.binding.kind = "OneStruct" -> fr.id
    [] include.binding.kind = "ManyStruct" -> u64_from_be_bytes(SubSeq(key, 9, 16))
    [] OTHER -> u64_from_be_bytes(key)

\* the calls of an include, were they made with the select of the caller
IncludeCallsSame(rx, fr, include, found) ==
  IF ~found.ok THEN Panic
  ELSE IF Len(found.keys) = 0 THEN [ok |-> TRUE, frames |-> <<>>]
  ELSE IF IncludeTree(include) \notin DOMAIN rx
          \/ \E k \in 1..Len(found.keys) :
               found.keys[k] \notin DOMAIN rx[IncludeTree(include)]
  THEN Panic
  ELSE [ok |-> TRUE,
        frames |-> [k \in 1..Len(found.keys) |->
                      Frame(CalledId(include, fr, found.keys[k]),
                            rx[IncludeTree(include)][found.keys[k]],
                            fr.select, include.model)]]

\* the calls of process_data that the include of the call makes
IncludeCalls(rx, fr, include, found) ==
  IF ~found.ok THEN Panic
  ELSE IF Len(found.keys) = 0 THEN [ok |-> TRUE, frames |-> <<>>]
  ELSE IF IncludeTree(include) \notin DOMAIN rx
          \/ \E k \in 1..Len(found.keys) :
               found.keys[k] \notin DOMAIN rx[IncludeTree(include)]
  THEN Panic
  ELSE [ok |-> TRUE,
        frames |-> [k \in 1..Len(found.keys) |->
                      Frame(CalledId(include, fr, found.keys[k]),
                            rx[IncludeTree(include)][found.keys[k]],
                            include.select, include.model)]]

\* the calls of process_data that the call makes, include after include
NestedCalls(rx, fr) ==
  [k \in 1..Len(fr.select.includes) |->
     IncludeCalls(rx, fr, fr.select.includes[k],
                  IncludeKeys(rx, fr, fr.select.includes[k]))]

\* the call decodes its own document
OwnDecoded(fr) ==
  decode_document(DecodeCtx(fr.id, fr.data, fr.model.fields,
                            fr.model.payload_offset, fr.select.select, <<>>))

\* a write of the runs, made while no findMany is being served
Plant(json) == rpc = "idle" /\ Insert(1, json)

Graft(id, json) == rpc = "idle" /\ Update(1, id, json)

\* a call of process_data for each row of the model tree, in key order
RowFrames(tree, keys, select, model) ==
  [k \in 1..Len(keys) |->
     Frame(u64_from_be_bytes(keys[k]), tree[keys[k]], select, model)]

\* get_all: begin_read, and the iterator over the rows of the model tree
BeginWalk(json) ==
  /\ up /\ rpc = "idle"
  /\ snap' = db
  /\ rcur' = RowFrames(db[ModelTree(schema.models[1])],
                       SortKeys(DOMAIN db[ModelTree(schema.models[1])]),
                       parse_select(schema.models[1].fields, json, schema),
                       schema.models[1])
  /\ rout' = <<>>
  /\ rpc' = "walking"
  /\ UNCHANGED <<svars, call, pc, tid, tres, committed, booted>>
  /\ UNCHANGED cvars

\* the walk after the first pending call has made the calls nested: a panic
\* of a nested call or of the decoder unwinds the request
Walked1(nested, own, rest) ==
  IF (\E k \in 1..Len(nested) : ~nested[k].ok) \/ ~own.ok
  THEN [rpc |-> "panicked", rcur |-> <<>>]
  ELSE [rpc |-> "walking",
        rcur |-> ConcatAll([k \in 1..Len(nested) |-> nested[k].frames])
                   \o rest]

\* the serving thread takes up the first pending call of process_data
Called ==
  /\ rpc = "walking" /\ Len(rcur) > 0
  /\ rout' = Append(rout, rcur[1].id)

\* one call of process_data: its includes are resolved to further calls
WalkStep ==
  /\ Called
  /\ \E w \in {Walked1(NestedCalls(snap, rcur[1]), OwnDecoded(rcur[1]),
                        Tail(rcur))} :
       rpc' = w.rpc /\ rcur' = w.rcur
  /\ UNCHANGED <<svars, call, pc, tid, tres, snap, committed, booted>>
  /\ UNCHANGED cvars

\* get_all returns: no call is left
WalkEnd ==
  /\ rpc = "walking" /\ Len(rcur) = 0
  /\ rpc' = "done"
  /\ UNCHANGED <<svars, call, pc, tid, tres, snap, rcur, rout, committed, booted>>
  /\ UNCHANGED cvars

WalkNext ==
  \/ \E json \in TreeBodies : Plant(json)
  \/ \E id \in Ids : \E json \in TreeBodies : Graft(id, json)
  \/ \E json \in WalkSelectors : BeginWalk(json)
  \/ WalkStep
  \/ WalkEnd

WalkInit == StoreInit(TreeBlocks)

\* a request that is being served runs on: the thread that serves it is
\* not stopped. A step of the runs that takes up a pending call is a
\* WalkStep, and WalkStep is enabled whenever a call is pending, so the
\* condition on Called is weak fairness of WalkStep
SpecWalk ==
  WalkInit /\ [][WalkNext]_vars /\ WF_rout(Called) /\ WF_vars(WalkEnd)

(***************************************************************************)
(* Claims about the storage layer, sequential runs                         *)
(***************************************************************************)
\* the row ids a model's tree holds
RowKeys(trees, model) == DOMAIN trees[ModelTree(model)]

\* the ModelRef fields a document of the model stores
StoredRefs(model) ==
  {k \in 1..Len(model.fields) :
     model.fields[k].ty = "ModelRef" /\ model.fields[k].offset_pos > 0}

\* C1: after every committed insert_data, update or delete, every non-null
\* ModelRef stored in a document of a model tree is a key of the referenced
\* model's tree.
C1_RefsResolve ==
  \A m \in 1..Len(schema.models) :
    LET model == schema.models[m]
    IN \A key \in RowKeys(db, model) : \A k \in StoredRefs(model) :
         LET v == get_value(db[ModelTree(model)][key], model.fields[k].offset_pos, 8)
         IN v # <<>> => v[1] \in RowKeys(db, schema.models[model.fields[k].ref])

\* the references a request body makes: <<field index, id>> for a ModelRef
\* given as {id} and for each element of a Connect list
BodyRefs(model, json) ==
  LET given(k) == JGet(json, model.fields[k].name)
  IN {<<k, JGetU64(given(k)[1], "id")[1]>> :
        k \in {j \in 1..Len(model.fields) :
                 /\ model.fields[j].ty = "ModelRef"
                 /\ given(j) # <<>> /\ given(j)[1].t = "obj"}}
     \cup UNION {{<<k, JGetU64(given(k)[1].a[e], "id")[1]>> :
                    e \in 1..Len(given(k)[1].a)} :
                   k \in {j \in 1..Len(model.fields) :
                            /\ model.fields[j].ty = "ModelRefList"
                            /\ given(j) # <<>> /\ given(j)[1].t = "arr"}}

\* those of them whose id is no key of the referenced model's tree
MissingRefs(sch, trees, model, json) ==
  {r \in BodyRefs(model, json) :
     IdKey(r[2]) \notin RowKeys(trees, sch.models[model.fields[r[1]].ref])}

\* C2: an insert_data whose parent document or Connect list references an id
\* that is no key of the referenced model's tree returns ForeignKeyViolation
\* with the referencing field's name and that id, and leaves every tree with
\* the entries it had.
C2_ViolationWritesNothing ==
  \A m \in 1..Len(schema.models) : \A json \in BlogBodies(m) :
    LET model == schema.models[m]
        missing == MissingRefs(schema, db, model, json)
        r == handle(schema, db, db_counters, InsertCall(m, json))
    IN missing # {} =>
         /\ r.res \in {ForeignKeyViolation(model.fields[x[1]].name, x[2]) :
                         x \in missing}
         /\ r.trees = db

\* a user exists, and an insert on Post took id 1 and wrote no row: it
\* referenced an author that does not exist
C2_Witness ==
  /\ RowKeys(db, schema.models[1]) = {IdKey(1)}
  /\ db_counters[schema.models[2].counter_idx] = 2
  /\ maxseen[schema.models[2].counter_idx] = 0
  /\ RowKeys(db, schema.models[2]) = {}

\* the references the embedded struct bodies of a request make: <<name of the
\* struct's field, id>> for each field of the struct that the schema declares
\* of a model's type and the body gives as {id}
StructBodyRefs(sch, model, json) ==
  LET names == {sch.models[i].name : i \in 1..Len(sch.models)}
      given(k) == JGet(json, model.fields[k].name)
      bodies == {k \in 1..Len(model.fields) :
                   /\ model.fields[k].ty = "Struct"
                   /\ given(k) # <<>> /\ given(k)[1].t = "obj"}
  IN UNION {
       {<<f.name, f.tyname, JGetU64(JGet(given(k)[1], f.name)[1], "id")[1]>> :
          f \in {model.fields[k].st.fields[j] :
                   j \in {i \in 1..Len(model.fields[k].st.fields) :
                            LET g == model.fields[k].st.fields[i]
                            IN /\ g.tyname \in names
                               /\ JGet(given(k)[1], g.name) # <<>>
                               /\ JGetU64(JGet(given(k)[1], g.name)[1], "id") # <<>>}}} :
       k \in bodies}

\* C2, the embedded struct body: an insert_data whose struct body references
\* an id that is no key of the referenced model's tree returns
\* ForeignKeyViolation with the referencing field's name and that id, and
\* leaves every tree with the entries it had.
C2_StructBodyRefused ==
  \A m \in 1..Len(schema.models) : \A json \in MetaBodies(m) :
    LET model == schema.models[m]
        by_name == build_model_map(schema.models)
        missing == {x \in StructBodyRefs(schema, model, json) :
                      IdKey(x[3]) \notin RowKeys(db, schema.models[by_name[x[2]]])}
        r == handle(schema, db, db_counters, InsertCall(m, json))
    IN missing # {} =>
         /\ r.res \in {ForeignKeyViolation(x[1], x[3]) : x \in missing}
         /\ r.trees = db

\* C3: every id insert_data issues is greater than every key the model's tree
\* held at any earlier time, rows deleted since and rows from before a
\* restart included.
C3_IssuedAboveSeen ==
  \A m \in 1..Len(schema.models) : \A json \in BlogBodies(m) :
    LET r == handle(schema, db, db_counters, InsertCall(m, json))
    IN r.res.ok => r.res.id > maxseen[schema.models[m].counter_idx]

\* the bidirectional list relations: <<m, f, n, g>> with field g of model n
\* derived from the list field f of model m
ListRelations(sch) ==
  {<<sch.models[n].fields[g].derived_from[1],
     sch.models[n].fields[g].derived_from[2], n, g>> :
     <<n, g>> \in {x \in UNION {{<<i, j>> : j \in 1..Len(sch.models[i].fields)} :
                                  i \in 1..Len(sch.models)} :
                     /\ sch.models[x[1]].fields[x[2]].ty = "ModelRefList"
                     /\ sch.models[x[1]].fields[x[2]].derived_from # <<>>}}

Swapped(key) == SubSeq(key, 9, 16) \o SubSeq(key, 1, 8)

\* C4: for every bidirectional list relation, after any committed inserts and
\* updates, (a,b) is under the Direct key iff (b,a) is under the Rev key, and
\* the join trees hold no other keys.
C4_JoinHalvesAgree ==
  \A rel \in ListRelations(schema) :
    LET direct == db[TreeNameOf(schema.models[rel[1]].name,
                                schema.models[rel[1]].fields[rel[2]].name)]
        rev == db[TreeNameOf(schema.models[rel[3]].name,
                             schema.models[rel[3]].fields[rel[4]].name)]
    IN /\ \A k \in DOMAIN direct \cup DOMAIN rev : Len(k) = 16
       /\ {Swapped(k) : k \in DOMAIN direct} = DOMAIN rev

\* the ids of the run that are no key of the model's tree
AbsentIds(trees, model) == {id \in Ids : IdKey(id) \notin RowKeys(trees, model)}

\* a call that was refused with res and changed no tree and no counter
Refused(r, res) ==
  /\ r.res = res
  /\ r.trees = db
  /\ r.counters = db_counters

\* an update of an absent id with an encodable body is refused as not found
UpdateNotFound(m, id, json, enc) ==
  enc.ok =>
    Refused(handle(schema, db, db_counters, UpdateCall(m, id, json)),
            ItemNotFound(id))

\* an update of an absent id with an encodable body is refused: for a missing
\* reference if the body makes one, as not found otherwise
UpdateRefused(m, id, json, enc, missing) ==
  enc.ok =>
    \E res \in IF missing = {} THEN {ItemNotFound(id)}
                ELSE {ForeignKeyViolation(schema.models[m].fields[x[1]].name,
                                          x[2]) : x \in missing} :
      Refused(handle(schema, db, db_counters, UpdateCall(m, id, json)), res)

\* a delete of an absent id returns false and changes nothing
DeleteNotFound(m, id) ==
  Refused(handle(schema, db, db_counters, DeleteCall(m, id)),
          [ok |-> TRUE, deleted |-> FALSE])

\* C13 as stated: update on an id absent from the model tree returns
\* ItemNotFound(id) and delete on an absent id returns false; in both cases
\* the document stays absent and no tree and no counter is changed.
C13_AbsentRefused ==
  \A m \in 1..Len(schema.models) : \A id \in AbsentIds(db, schema.models[m]) :
    /\ DeleteNotFound(m, id)
    /\ \A json \in BlogBodies(m) :
         UpdateNotFound(m, id, json,
                        encode_document(schema.models[m], json, <<>>))

\* C13 amended: update verifies the body's references before it fetches the
\* row, so on an absent id it returns ForeignKeyViolation when the body
\* references a missing row and ItemNotFound(id) otherwise; delete on an
\* absent id returns false; in each case no tree and no counter is changed.
C13_AbsentRefusedAfterKeys ==
  \A m \in 1..Len(schema.models) : \A id \in AbsentIds(db, schema.models[m]) :
    /\ DeleteNotFound(m, id)
    /\ \A json \in BlogBodies(m) :
         UpdateRefused(m, id, json,
                       encode_document(schema.models[m], json, <<>>),
                       MissingRefs(schema, db, schema.models[m], json))

\* C13's case: user 1 is stored, user 2 was issued and deleted; an update and
\* a delete of user 2 are refused as not found
C13_Witness ==
  /\ RowKeys(db, schema.models[1]) = {IdKey(1)}
  /\ maxseen[schema.models[1].counter_idx] = 2
  /\ handle(schema, db, db_counters,
            UpdateCall(1, 2, JObj([name |-> JStr(<<97>>)]))).res = ItemNotFound(2)
  /\ ~handle(schema, db, db_counters, DeleteCall(1, 2)).res.deleted

\* the trees with exactly the key of id removed from the model's own tree
WithoutRow(trees, model, id) ==
  [t \in DOMAIN trees |->
     IF t = ModelTree(model)
     THEN [k \in DOMAIN trees[t] \ {IdKey(id)} |-> trees[t][k]]
     ELSE trees[t]]

\* a delete that returned r removed the row of id and nothing else
OnlyRowRemoved(m, id, r) ==
  /\ r.res = [ok |-> TRUE, deleted |-> TRUE]
  /\ r.trees = WithoutRow(db, schema.models[m], id)
  /\ r.counters = db_counters

\* C14: a successful delete(model, id) removes exactly the key id from the
\* model's own tree and leaves every other key of that tree, every struct
\* tree, every join/index tree and every counter unchanged.
C14_DeleteFrame ==
  \A m \in 1..Len(schema.models) :
    \A id \in Ids \ AbsentIds(db, schema.models[m]) :
      OnlyRowRemoved(m, id, handle(schema, db, db_counters, DeleteCall(m, id)))

\* C14's case: user 1 was deleted while post 1 refers to it; the row and the
\* index entry of the post are still there, and so is user 2
C14_Witness ==
  /\ RowKeys(db, schema.models[1]) = {IdKey(2)}
  /\ RowKeys(db, schema.models[2]) = {IdKey(1)}
  /\ make_key(1, 1) \in DOMAIN db[<<"User", "posts">>]
  /\ db_counters[schema.models[1].counter_idx] = 3

\* the value a stored row holds in the primitive field called name
Stored(model, data, name) ==
  decode_document(
    DecodeCtx(0, data, model.fields, model.payload_offset,
              [i \in 1..(Len(model.fields) + 1) |->
                 i > 1 /\ model.fields[i - 1].name = name],
              <<>>)).value.o[name]

\* the id a stored post holds in author
AuthorOf(data) == u64_from_be_bytes(Slice(data, Len(data) - 8, Len(data)))

\* what findMany(Post, {title, author:{name}}) is to return: every post in
\* key order, with the name of the user its author names
PostsWithAuthors(trees) ==
  LET posts == SortKeys(DOMAIN trees[<<"Post">>])
  IN [i \in 1..Len(posts) |->
        JObj([title |-> Stored(schema.models[2], trees[<<"Post">>][posts[i]],
                               "title"),
              author |->
                JObj([name |->
                        Stored(schema.models[1],
                               trees[<<"User">>][
                                 IdKey(AuthorOf(trees[<<"Post">>][posts[i]]))],
                               "name")])])]

\* the posts, in key order, whose author is the user with the key
PostsBy(trees, user) ==
  SelectSeq(SortKeys(DOMAIN trees[<<"Post">>]),
            LAMBDA p : IdKey(AuthorOf(trees[<<"Post">>][p])) = user)

\* what findMany(User, {name, posts:{title}}) is to return: every user in key
\* order, with the titles of exactly the posts whose author it is
UsersWithPosts(trees) ==
  LET users == SortKeys(DOMAIN trees[<<"User">>])
  IN [i \in 1..Len(users) |->
        JObj([name |-> Stored(schema.models[1], trees[<<"User">>][users[i]],
                              "name"),
              posts |->
                JArr([j \in 1..Len(PostsBy(trees, users[i])) |->
                        JObj([title |->
                                Stored(schema.models[2],
                                       trees[<<"Post">>][
                                         PostsBy(trees, users[i])[j]],
                                       "title")])])])]

\* the selects of the two requests
PostSelect(sch) ==
  parse_select(sch.models[2].fields,
               JObj([title |-> JBool(TRUE),
                     author |-> JObj([name |-> JBool(TRUE)])]),
               sch)

UserSelect(sch) ==
  parse_select(sch.models[1].fields,
               JObj([name |-> JBool(TRUE),
                     posts |-> JObj([title |-> JBool(TRUE)])]),
               sch)

\* C15: after inserting users and posts whose author is an existing user,
\* get_all(Post) selecting title and author{name} returns every post with its
\* author's record, and get_all(User) selecting name and posts{title} returns
\* every user with an array of exactly the posts whose author is that user.
C15_IncludesJoin ==
  /\ get_all(db, schema.models[2], PostSelect(schema))
       = [ok |-> TRUE, value |-> PostsWithAuthors(db)]
  /\ get_all(db, schema.models[1], UserSelect(schema))
       = [ok |-> TRUE, value |-> UsersWithPosts(db)]

\* C15's case: two users and two posts, both posts by the second user
C15_Witness ==
  /\ get_all(db, schema.models[1], UserSelect(schema)).value
       = <<JObj([name |-> JStr(<<97>>), posts |-> JArr(<<>>)]),
           JObj([name |-> JStr(<<98>>),
                 posts |-> JArr(<<JObj([title |-> JStr(<<116>>)]),
                                  JObj([title |-> JStr(<<117>>)])>>)])>>
  /\ get_all(db, schema.models[2], PostSelect(schema)).value
       = <<JObj([title |-> JStr(<<116>>),
                 author |-> JObj([name |-> JStr(<<98>>)])]),
           JObj([title |-> JStr(<<117>>),
                 author |-> JObj([name |-> JStr(<<98>>)])])>>

\* the labels of the elements a row of findMany returns under the field
LabelsOf(row, name) ==
  {row.o[name].a[i].o["label"] : i \in 1..Len(row.o[name].a)}

\* what findMany(Post, {tags:{label}, notes:{label}}) returns
TagRows(sch, trees) ==
  get_all(trees, sch.models[1],
          parse_select(sch.models[1].fields,
                       JObj([tags |-> JObj([label |-> JBool(TRUE)]),
                             notes |-> JObj([label |-> JBool(TRUE)])]),
                       sch))

\* the rows show under tags only what was written through tags, and under
\* notes only what was written through notes
ListsApart(rows) ==
  /\ rows.ok
  /\ \A i \in 1..Len(rows.value) :
       /\ LabelsOf(rows.value[i], "tags") \subseteq {JStr(<<116>>)}
       /\ LabelsOf(rows.value[i], "notes") \subseteq {JStr(<<110>>)}

\* C17: every struct field M.f, single or list, is stored in the tree named
\* "M.f": two different struct-typed fields never share a tree, so rows
\* written through one field are never returned, overwritten or deleted
\* through another.
C17_StructFieldsApart ==
  /\ \A k \in 1..Len(schema.models[1].fields) :
       schema.models[1].fields[k].ty \in {"Struct", "StructList"} =>
         schema.models[1].fields[k].st.name
           = <<schema.models[1].name, schema.models[1].fields[k].name>>
  /\ ListsApart(TagRows(schema, db))

\* C18: resolving a schema that declares two models with the same name fails
\* fatally: no Schema is produced and the database does not start.
C18_DuplicateRefused ==
  (\E i, j \in 1..Len(schema.models) :
     i # j /\ schema.models[i].name = schema.models[j].name)
    => ~up

\* whether the change mask encode_document returned for json has the bit of
\* each field set exactly when json keys the field, and no other bit set
MaskIsKeys(model, json, e) ==
  /\ \A k \in 1..Len(model.fields) :
       e.mask[model.fields[k].offset_index + 1]
         <=> model.fields[k].name \in DOMAIN json.o
  /\ \A i \in DOMAIN e.mask :
       e.mask[i] => \E k \in 1..Len(model.fields) :
                      /\ model.fields[k].offset_index + 1 = i
                      /\ model.fields[k].name \in DOMAIN json.o

\* the mask of an accepted body is the body's keys
MaskOfAccepted(model, json, e) == e.ok => MaskIsKeys(model, json, e)

\* C12: after encode_document(partial) the change-mask bit of a field is set
\* iff the field's name is a key of partial, whatever the field's type
\* (here: primitive, struct), and every other bit is zero.
C12_MaskIsKeys ==
  \A m \in 1..Len(schema.models) : \A json \in MetaBodies(m) :
    MaskOfAccepted(schema.models[m], json,
                   encode_document(schema.models[m], json, <<>>))

\* MarciDB::new returned started: it did not panic, and every counter is 1 +
\* the greatest id its tree holds (1 for an empty tree)
StartsCounted(sch, trees, started) ==
  /\ started.ok
  /\ \A i \in DOMAIN started.counters :
       started.counters[i] = IF HeldIds(sch, trees, i) = {} THEN 1
                             ELSE MaxOf(HeldIds(sch, trees, i)) + 1

\* C22: MarciDB::new on a database that already holds rows, whatever rows
\* earlier runs committed, succeeds and leaves every model counter at 1 + the
\* largest id key of the model tree and every struct-list counter at 1 + the
\* largest local id in the struct list's tree (1 when the tree is empty).
C22_StartCounts ==
  up => StartsCounted(schema, db, MarciDB_new(schema, db))

\* the call was refused for a missing referenced row
ViolatesKey(r) == ~r.res.ok /\ r.res.err[1] = "ForeignKeyViolation"

\* an insert into model m that follows the refused one, r, gets the id the
\* counter held before the refused one
NextGetsId(m, r, id) ==
  \A json \in BlogBodies(m) :
    LET n == handle(schema, r.trees, r.counters, InsertCall(m, json))
    IN n.res.ok => n.res.id = id

\* C23: an insert that fails with ForeignKeyViolation leaves the model's
\* counter unchanged (the foreign keys are verified before the id is taken),
\* and the next successful insert receives the id the failed one would have
\* received.
C23_RefusedInsertKeepsId ==
  up =>
    \A m \in 1..Len(schema.models) : \A json \in BlogBodies(m) :
      LET r == handle(schema, db, db_counters, InsertCall(m, json))
      IN ViolatesKey(r) =>
           /\ r.counters = db_counters
           /\ NextGetsId(m, r, db_counters[schema.models[m].counter_idx])

\* the keys of a join tree that pair the parent id with a child: the parent
\* is the first half of a Direct key and the second half of a Rev key
PairsOf(tree, index, id) ==
  {k \in DOMAIN tree :
     IF index.dir = "Direct" THEN SubSeq(k, 1, 8) = IdKey(id)
     ELSE SubSeq(k, 9, 16) = IdKey(id)}

\* the child of a key that pairs a parent with it
ChildOf(index, k) ==
  IF index.dir = "Direct" THEN SubSeq(k, 9, 16) ELSE SubSeq(k, 1, 8)

\* one join tree after update(.., id, ..) with Connect{field, ids}: the
\* children paired with id are exactly ids in a Direct tree and among ids in
\* a Rev tree, and the pairs of the other parents are as they were
Reconnected(old, new, index, id, ids) ==
  /\ index.dir = "Direct" =>
       {ChildOf(index, k) : k \in PairsOf(new, index, id)}
         = {IdKey(ids[j]) : j \in 1..Len(ids)}
  /\ index.dir = "Rev" =>
       {ChildOf(index, k) : k \in PairsOf(new, index, id)}
         \subseteq {IdKey(ids[j]) : j \in 1..Len(ids)}
  /\ DOMAIN new \ PairsOf(new, index, id) = DOMAIN old \ PairsOf(old, index, id)

\* the same for every index of the Connect's field
ConnectApplied(old, new, st, id) ==
  st.kind = "Connect" =>
    \A i \in 1..Len(st.field.inserted_indexes) :
      Reconnected(old[st.field.inserted_indexes[i].tree_name],
                  new[st.field.inserted_indexes[i].tree_name],
                  st.field.inserted_indexes[i], id, st.ids)

\* C24: after a committed update(model, id, ...) carrying Connect{field, ids}
\* the children reachable from id through the field's Direct tree are exactly
\* ids, every Rev key that paired id with a child no longer in ids is gone,
\* and the entries of other parent ids are unchanged.
C24_ConnectReplaces ==
  up =>
    \A m \in 1..Len(schema.models) : \A id \in Ids : \A json \in RelBodies(m) :
      LET enc == encode_document(schema.models[m], json, <<>>)
          r == handle(schema, db, db_counters, UpdateCall(m, id, json))
      IN (enc.ok /\ r.res.ok) =>
           \A k \in 1..Len(enc.structs) :
             ConnectApplied(db, r.trees, enc.structs[k], id)

\* the index entries get_indexes derives from the stored value of field k of
\* the row data
FieldEntries(data, item_id, model, k) ==
  get_indexes(data, item_id, [model EXCEPT !.fields = <<model.fields[k]>>], <<>>)

\* every entry of es is in the trees new exactly if it is in the trees old
EntriesKept(old, new, es) ==
  \A j \in 1..Len(es) :
    (es[j].key \in DOMAIN old[es[j].tree_name])
      <=> (es[j].key \in DOMAIN new[es[j].tree_name])

\* the update of row id of model m with the encoded body enc left the trees
\* new: the entries of every stored field it did not address, in the rows of
\* the models ms, are as they were
UnaddressedKept(ms, m, id, enc, new) ==
  \A x \in ms : \A key \in RowKeys(db, schema.models[x]) :
    \A k \in 1..Len(schema.models[x].fields) :
      (/\ x = m
       /\ key = IdKey(id)
       /\ enc.mask[schema.models[x].fields[k].offset_index + 1]) \/
      EntriesKept(db, new,
                  FieldEntries(db[ModelTree(schema.models[x])][key],
                               u64_from_be_bytes(key), schema.models[x], k))

\* C25: an update changes the index entries that originate from a field only
\* if the field's change-mask bit is set or a Connect for it is supplied: for
\* every field the update does not address, the index entries derived from
\* its stored value are the same before and after the commit.
C25_UnaddressedEntriesKept ==
  up =>
    \A m \in 1..Len(schema.models) : \A id \in Ids : \A json \in BlogBodies(m) :
      LET enc == encode_document(schema.models[m], json, <<>>)
          r == handle(schema, db, db_counters, UpdateCall(m, id, json))
      IN (enc.ok /\ r.res.ok) =>
           UnaddressedKept(1..Len(schema.models), m, id, enc, r.trees)

\* the index entries update schedules for removal: those of the old bytes
\* of the masked fields
Scheduled(model, id, old, enc) == get_indexes(old, id, model, <<enc.mask>>)

\* the index entries update writes: those of the new bytes, and those
\* insert_indexes writes for each Connect
Written(model, id, enc) ==
  get_indexes(enc.buf, id, model, <<>>)
    \o ConcatAll([k \in 1..Len(enc.structs) |->
                    IF enc.structs[k].kind = "Connect"
                    THEN ConnectEntries(enc.structs[k].field, id,
                                        enc.structs[k].ids)
                    ELSE <<>>])

\* every key both scheduled for removal and written is in its tree
BothPresent(trees, removed, written) ==
  \A i \in 1..Len(removed) : \A j \in 1..Len(written) :
    removed[i] = written[j] =>
      removed[i].key \in DOMAIN trees[removed[i].tree_name]

\* C26: within one update, whenever an index key is both scheduled for
\* removal (derived from the old bytes) and written (derived from the new
\* bytes or from a Connect list) in the same tree, the key is present after
\* the commit.
C26_AddWins ==
  up =>
    \A id \in Ids : \A json \in TreeBodies :
      LET enc == encode_document(schema.models[1], json, <<>>)
          r == handle(schema, db, db_counters, UpdateCall(1, id, json))
      IN (enc.ok /\ r.res.ok) =>
           BothPresent(r.trees,
                       Scheduled(schema.models[1], id,
                                 db[ModelTree(schema.models[1])][IdKey(id)], enc),
                       Written(schema.models[1], id, enc))

\* the names insert_data, update, delete and get_all open trees by: the
\* model's, the struct's of every struct-typed field, and the tree name of
\* every index, Direct or Rev, of every field
OpenedByName(sch) ==
  UNION {{ModelTree(sch.models[m])}
           \cup {sch.models[m].fields[k].st.name :
                   k \in {j \in 1..Len(sch.models[m].fields) :
                            sch.models[m].fields[j].ty
                              \in {"Struct", "StructList"}}}
           \cup UNION {{sch.models[m].fields[k].inserted_indexes[i].tree_name :
                          i \in 1..Len(sch.models[m].fields[k].inserted_indexes)} :
                         k \in 1..Len(sch.models[m].fields)} :
         m \in 1..Len(sch.models)}

\* C27: every tree that insert_data, update, delete or get_all opens by name
\* (model trees, struct trees, and the tree of every Direct and every Rev
\* index of every field) was created by MarciDB::new, for every schema the
\* resolver accepts.
C27_TreesCreated == OpenedByName(schema) \subseteq DOMAIN db

\* C27's case: an insert has written a key into the tree of a Rev index
C27_Witness ==
  /\ up
  /\ \E m \in 1..Len(schema.models) : \E k \in 1..Len(schema.models[m].fields) :
       \E i \in 1..Len(schema.models[m].fields[k].inserted_indexes) :
         /\ schema.models[m].fields[k].inserted_indexes[i].dir = "Rev"
         /\ DOMAIN db[schema.models[m].fields[k].inserted_indexes[i].tree_name]
              # {}

\* the models of a schema and the structs of their struct-typed fields
Shapes(sch) ==
  {sch.models[m] : m \in 1..Len(sch.models)}
    \cup UNION {{sch.models[m].fields[k].st :
                   k \in {j \in 1..Len(sch.models[m].fields) :
                            sch.models[m].fields[j].ty
                              \in {"Struct", "StructList"}}} :
                 m \in 1..Len(sch.models)}

\* the fields of a shape that are neither @derived nor a list of references
Inline(shape) ==
  {k \in 1..Len(shape.fields) :
     /\ ~(Len(shape.fields[k].attributes) > 0
           /\ shape.fields[k].attributes[1] = "derived")
     /\ shape.fields[k].ty \notin {"ModelRefList", "StructList",
                                    "RefListUnresolved"}}

\* the shape's slots go to its inline fields, 0, 1, 2, ... in declaration
\* order, and the payload starts after the last slot
SlotsInOrder(shape) ==
  /\ \A k \in Inline(shape) :
       /\ shape.fields[k].offset_index
            = Cardinality({j \in Inline(shape) : j < k})
       /\ shape.fields[k].offset_pos = 3 + 4 * shape.fields[k].offset_index
  /\ \A k \in (1..Len(shape.fields)) \ Inline(shape) :
       shape.fields[k].offset_pos = 0
  /\ shape.payload_offset = 3 + 4 * Cardinality(Inline(shape))

\* the header of an encoded document holds what the slot owners put there:
\* the version, the payload offset, and in every slot 0 or an offset into
\* the payload
HeaderKept(shape, buf) ==
  /\ Slice(buf, 0, 3) = <<1>> \o u16_to_be_bytes(shape.payload_offset)
  /\ \A k \in Inline(shape) :
       \/ get_offset(buf, shape.fields[k].offset_pos) = 0
       \/ /\ shape.payload_offset <= get_offset(buf, shape.fields[k].offset_pos)
          /\ get_offset(buf, shape.fields[k].offset_pos) <= Len(buf)

\* encode_document on the body returned e: the header is kept
EncodedKeepsHeader(shape, e) == e.ok => HeaderKept(shape, e.buf)

\* C28: in every model and struct the resolver gives offset indices 0, 1,
\* 2, ... in declaration order to exactly the fields that are neither
\* @derived nor a list of references, with offset_pos = 3 + 4*offset_index
\* and payload_offset = 3 + 4*(number of such fields); no two slot owners
\* share a slot, and no field without a slot is written to the header.
C28_SlotsAndHeader ==
  /\ \A shape \in Shapes(schema) : SlotsInOrder(shape)
  /\ \A m \in 1..Len(schema.models) : \A json \in FamilyBodies(schema.models[m]) :
       EncodedKeepsHeader(schema.models[m],
                          encode_document(schema.models[m], json, <<>>))

\* the (model, field) positions of the @derived fields of a schema
DerivedFields(sch) ==
  {x \in UNION {{<<m, k>> : k \in 1..Len(sch.models[m].fields)} :
                 m \in 1..Len(sch.models)} :
     sch.models[x[1]].fields[x[2]].derived_from # <<>>}

\* the field holds an index of the direction on the tree
HoldsIndex(field, dir, tree_name) ==
  \E i \in 1..Len(field.inserted_indexes) :
    field.inserted_indexes[i] = [dir |-> dir, tree_name |-> tree_name]

\* the owning field holds a Direct index and the derived field a Rev index
\* on the same tree
OwnerDirectDerivedRev(owner, g) ==
  \E i \in 1..Len(owner.inserted_indexes) :
    /\ owner.inserted_indexes[i].dir = "Direct"
    /\ HoldsIndex(g, "Rev", owner.inserted_indexes[i].tree_name)

\* C29: for every field g declared @derived(M.f), after resolution M.f
\* holds a Direct index and g holds a Rev index with the same tree name,
\* whatever the types (single reference or list) of the two sides.
C29_OwnerDirectDerivedRev ==
  \A x \in DerivedFields(schema) :
    OwnerDirectDerivedRev(
      schema.models[schema.models[x[1]].fields[x[2]].derived_from[1]]
        .fields[schema.models[x[1]].fields[x[2]].derived_from[2]],
      schema.models[x[1]].fields[x[2]])

\* the state encode_document's loop over the fields leaves, before the
\* EmptyObject test
Walked(shape, json, structs) ==
  EncodeFields(shape.fields, 1, json.o,
               EncState(Resize(<<1>> \o u16_to_be_bytes(shape.payload_offset),
                               shape.payload_offset),
                        [i \in 1..(MaxOf({shape.fields[k].offset_index :
                                            k \in 1..Len(shape.fields)}) + 1)
                           |-> FALSE],
                        structs))

\* the walk appended no payload byte and pushed no struct effect of its own
WalkedNothing(shape, w, structs) ==
  Len(w.buf) = shape.payload_offset /\ Len(w.structs) = Len(structs)

\* the effects that the fields of a request body leave in structs
EffectsOf(model, bodies) ==
  {Walked(model, b, <<>>).structs :
     b \in {x \in bodies : Walked(model, x, <<>>).ok}}

\* C30: encode_document returns EmptyObject exactly when, after walking the
\* fields of the object being encoded, no payload byte was appended and that
\* object produced no struct side effect, whatever effects were accumulated
\* earlier for sibling fields or for the enclosing object.
C30_EmptyObjectOwn ==
  \A shape \in Shapes(schema) :
    \A json \in {JObj(<<>>), JObj([label |-> JStr(<<116>>)])} :
      \A structs \in EffectsOf(schema.models[1], TagInserts) :
        Walked(shape, json, structs).ok =>
          ((encode_document(shape, json, structs) = Err(<<"EmptyObject">>))
             <=> WalkedNothing(shape, Walked(shape, json, structs), structs))

\* the header of a stored document: version 1, then the payload offset of
\* its shape
Headed(shape, data) ==
  /\ Len(data) >= 3
  /\ Slice(data, 0, 3) = <<1>> \o u16_to_be_bytes(shape.payload_offset)

\* every document of the tree is headed as its shape says
TreeHeaded(shape, tree) == \A k \in DOMAIN tree : Headed(shape, tree[k])

\* C31: every document stored in a model or struct tree by any sequence of
\* insert_data and update calls fed from encode_document starts with version
\* byte 1 followed by a u16 equal to the shape's payload_offset, whatever
\* keys the input object carries (a key naming a derived or list field that
\* owns no header slot included).
C31_StoredHeaded ==
  up =>
    /\ \A m \in 1..Len(schema.models) :
         TreeHeaded(schema.models[m], db[ModelTree(schema.models[m])])
    /\ \A m \in 1..Len(schema.models) : \A k \in 1..Len(schema.models[m].fields) :
         schema.models[m].fields[k].ty \in {"Struct", "StructList"} =>
           TreeHeaded(schema.models[m].fields[k].st,
                      db[schema.models[m].fields[k].st.name])

\* the object selectors over the fields of a shape and id, each key true or
\* false, and the selector true
Selectors(shape) ==
  {JBool(TRUE)}
    \cup UNION {{JObj(o) : o \in [D -> {JBool(TRUE), JBool(FALSE)}]} :
                 D \in SUBSET ({"id"} \cup {shape.fields[k].name :
                                              k \in 1..Len(shape.fields)})}

\* the binding a relation or struct field is included with
BindingKind(field) ==
  CASE field.ty \in {"ModelRef", "RefUnresolved"} -> "One"
    [] field.ty \in {"ModelRefList", "RefListUnresolved"} -> "Many"
    [] field.ty = "Struct" -> "OneStruct"
    [] OTHER -> "ManyStruct"

\* the fields the selector keys with a value other than false
KeyedTrue(shape, json) ==
  {k \in 1..Len(shape.fields) :
     JGet(json, shape.fields[k].name) \notin {<<>>, <<JBool(FALSE)>>}}

\* the select is the one the selector asks for
SelectAsAsked(shape, json, sel) ==
  LET prims == {k \in 1..Len(shape.fields) :
                  shape.fields[k].ty \in {"Primitive", "PrimitiveList"}}
      incs == KeyedTrue(shape, json) \ prims
  IN /\ Len(sel.select) = 1 + Len(shape.fields)
     /\ json = JBool(TRUE) =>
          /\ \A i \in 1..Len(sel.select) : sel.select[i]
          /\ sel.includes = <<>>
     /\ json.t = "obj" =>
          /\ sel.select[1] <=> (JGet(json, "id") = <<JBool(TRUE)>>)
          /\ \A k \in 1..Len(shape.fields) :
               sel.select[k + 1] <=> k \in KeyedTrue(shape, json) \cap prims
          /\ Len(sel.includes) = Cardinality(incs)
          /\ \A i \in 1..Len(sel.includes) :
               /\ sel.includes[i].field_index \in incs
               /\ Cardinality({j \in incs : j < sel.includes[i].field_index})
                    = i - 1
               /\ sel.includes[i].binding.kind
                    = BindingKind(shape.fields[sel.includes[i].field_index])

\* C33: parse_select returns a mask of exactly 1 + fieldCount bits: for the
\* selector true every bit (id and all fields) is set and there are no
\* includes; for an object selector the id bit is set iff "id" is true, a
\* primitive field's bit is set iff the field is keyed with a value other
\* than false, and each keyed relation or struct field yields one include
\* (One for ModelRef, Many for ModelRefList, OneStruct, ManyStruct) in
\* declaration order and no mask bit.
C33_SelectAsAsked ==
  \A shape \in Shapes(schema) : \A json \in Selectors(shape) :
    SelectAsAsked(shape, json, parse_select(shape.fields, json, schema))

\* what a stored document holds for a field: <<>> for null, else its bytes
FieldSpan(shape, data, k) ==
  IF get_offset(data, shape.fields[k].offset_pos) = 0 THEN <<>>
  ELSE <<Slice(data, get_offset(data, shape.fields[k].offset_pos),
               get_end(data, shape.fields[k].offset_pos, shape.payload_offset))>>

\* the row is old with the fields of the mask taken from part
MergedRow(shape, old, part, mask, row) ==
  /\ Headed(shape, row)
  /\ \A k \in 1..Len(shape.fields) :
       FieldSpan(shape, row, k)
         = IF mask[shape.fields[k].offset_index + 1]
           THEN FieldSpan(shape, part, k) ELSE FieldSpan(shape, old, k)

\* the tree is old with the keys of gone removed
TreeWithout(old, new, gone) ==
  /\ DOMAIN new = DOMAIN old \ gone
  /\ \A k \in DOMAIN new : new[k] = old[k]

\* the tree is old with the row of key put as the predicate says
TreeWithRow(old, new, key) ==
  /\ DOMAIN new = DOMAIN old \cup {key}
  /\ \A k \in DOMAIN old \ {key} : new[k] = old[k]

\* the struct effect st of an update of id took old to new
EffectApplied(st, id, old, new) ==
  CASE st.kind = "One" ->
         /\ TreeWithRow(old, new, IdKey(id))
         /\ IF IdKey(id) \in DOMAIN old
            THEN MergedRow(st.st, old[IdKey(id)], st.data, st.changed_mask,
                           new[IdKey(id)])
            ELSE new[IdKey(id)] = st.data
    [] st.kind = "Empty" ->
         TreeWithout(old, new, {k \in DOMAIN old : HasPrefix(k, IdKey(id))})
    [] st.kind = "None" -> TreeWithout(old, new, {IdKey(id)})
    [] OTHER -> TRUE

\* the update that the body asks of row id committed, and its one struct
\* effect took its tree as EffectApplied says
UpdateApplied(trees, id, enc, r) ==
  (enc.ok /\ Len(enc.structs) = 1 /\ r.res.ok) =>
    EffectApplied(enc.structs[1], id, trees[enc.structs[1].st.name],
                  r.trees[enc.structs[1].st.name])

\* C34: on update, a One struct effect whose parent already has a struct row
\* merges into it through update_data (struct fields not in the struct's
\* change mask keep their stored values) and is inserted as given when no
\* row exists; an Empty effect deletes exactly the struct rows whose key
\* starts with the parent id; a None effect deletes exactly the single row
\* keyed by the parent id.
C34_StructEffects ==
  up => \A id \in Ids : \A json \in CardUpdates :
    UpdateApplied(db, id, encode_document(schema.models[1], json, <<>>),
                  handle(schema, db, db_counters, UpdateCall(1, id, json)))

\* C34's case: the struct row of post 1 holds the note of an update and the
\* mark of its insert
C34_Witness ==
  /\ up
  /\ IdKey(1) \in DOMAIN db[<<"Post", "meta">>]
  /\ FieldSpan(schema.models[1].fields[2].st, db[<<"Post", "meta">>][IdKey(1)], 1)
       = <<<<120, 120>>>>
  /\ FieldSpan(schema.models[1].fields[2].st, db[<<"Post", "meta">>][IdKey(1)], 2)
       = <<<<109>>>>

\* the selectors of a findMany on a model: everything, the id alone, and the
\* id with each relation or struct field of the model
FindSelectors(model) ==
  {JBool(TRUE), JObj([id |-> JBool(TRUE)])}
    \cup {JObj([n \in {"id", model.fields[k].name} |-> JBool(TRUE)]) :
            k \in {j \in 1..Len(model.fields) : model.fields[j].ty # "Primitive"}}

\* the ids of the rows, in the order get_all returned them
IdsOf(rows) == [i \in 1..Len(rows) |-> rows[i].o["id"]]

\* the ids of the documents of a model tree, ascending
IdsStored(tree) ==
  [i \in 1..Cardinality(DOMAIN tree) |->
     JNum(u64_from_be_bytes(SortKeys(DOMAIN tree)[i]))]

\* get_all returned one row per document of the tree, in ascending id order
RowsAsStored(tree, r) == r.ok /\ IdsOf(r.value) = IdsStored(tree)

\* get_all on the model under the selector
Found(sch, trees, model, json) ==
  get_all(trees, model, parse_select(model.fields, json, sch))

\* C35: get_all(model, select, f) returns exactly one result per document
\* present in the model tree of the snapshot, in ascending id order, each
\* built from that document's id and bytes; a document inserted and not
\* deleted always appears, a deleted one never does.
C35_OneRowPerDocument ==
  up => \A m \in 1..Len(schema.models) : \A json \in FindSelectors(schema.models[m]) :
    RowsAsStored(db[ModelTree(schema.models[m])],
                 Found(schema, db, schema.models[m], json))

\* the key of a join tree pairs a row of one model with a row of the other
PairsRows(trees, key, parent, child) ==
  /\ Len(key) = 16
  /\ \/ /\ SubSeq(key, 1, 8) \in RowKeys(trees, parent)
        /\ SubSeq(key, 9, 16) \in RowKeys(trees, child)
     \/ /\ SubSeq(key, 1, 8) \in RowKeys(trees, child)
        /\ SubSeq(key, 9, 16) \in RowKeys(trees, parent)

\* every key of the join tree of every reference list pairs rows that exist
JoinsLive(sch, trees) ==
  \A m \in 1..Len(sch.models) : \A k \in 1..Len(sch.models[m].fields) :
    sch.models[m].fields[k].ty = "ModelRefList" =>
      \A key \in DOMAIN trees[sch.models[m].fields[k].select_index[1]] :
        PairsRows(trees, key, sch.models[m],
                  sch.models[sch.models[m].fields[k].ref])

\* every reference a document stores names a row that exists
RefsLive(sch, trees) ==
  \A m \in 1..Len(sch.models) : \A k \in StoredRefs(sch.models[m]) :
    \A key \in RowKeys(trees, sch.models[m]) :
      get_value(trees[ModelTree(sch.models[m])][key],
                sch.models[m].fields[k].offset_pos, 8)
        \in {<<>>} \cup {<<x>> : x \in RowKeys(trees,
                                     sch.models[sch.models[m].fields[k].ref])}

\* C36: after any sequence of committed insert_data, update and delete
\* calls, every key of every join tree pairs ids of rows that exist in their
\* model trees, and every ModelRef include target exists, so get_all with
\* any compiled select completes for every stored document without hitting
\* a missing row.
C36_NoMissingRow ==
  up =>
    /\ JoinsLive(schema, db)
    /\ RefsLive(schema, db)
    /\ \A m \in 1..Len(schema.models) :
         \A json \in FindSelectors(schema.models[m]) :
           Found(schema, db, schema.models[m], json).ok

\* the reference the stored document holds in the field: <<>> or <<id bytes>>
StoredRef(trees, model, field, key) ==
  get_value(trees[ModelTree(model)][key], field.offset_pos, 8)

\* the join tree of the derived list and the documents of the owning model
\* agree: the key (b, a) is in the tree iff document a stores b in the field
JoinAgrees(trees, tree_name, owner, field) ==
  /\ \A key \in DOMAIN trees[tree_name] :
       /\ Len(key) = 16
       /\ SubSeq(key, 9, 16) \in RowKeys(trees, owner)
       /\ StoredRef(trees, owner, field, SubSeq(key, 9, 16))
            = <<SubSeq(key, 1, 8)>>
  /\ \A a \in RowKeys(trees, owner) :
       StoredRef(trees, owner, field, a) # <<>> =>
         StoredRef(trees, owner, field, a)[1] \o a \in DOMAIN trees[tree_name]

\* C37: for a reference field A.f whose inverse list B.g is bound by
\* @derived, the join tree and the documents agree after any sequence of
\* committed writes: the tree holds the key (b, a) iff the stored document
\* of a has f = b, including after a Connect written from the list side and
\* after an update that changes or clears f.
C37_JoinAgrees ==
  up => \A x \in DerivedFields(schema) :
    (/\ schema.models[x[1]].fields[x[2]].ty = "ModelRefList"
     /\ schema.models[schema.models[x[1]].fields[x[2]].derived_from[1]]
          .fields[schema.models[x[1]].fields[x[2]].derived_from[2]].ty
            = "ModelRef") =>
      JoinAgrees(db, schema.models[x[1]].fields[x[2]].select_index[1],
                 schema.models[schema.models[x[1]].fields[x[2]].derived_from[1]],
                 schema.models[schema.models[x[1]].fields[x[2]].derived_from[1]]
                   .fields[schema.models[x[1]].fields[x[2]].derived_from[2]])

\* the number of elements the body gives for the list
ListGiven(json, name) ==
  IF JGet(json, name) = <<>> THEN 0 ELSE Len(JGet(json, name)[1].a)

\* the insert that r reports committed, and rows is what findMany then
\* returns: the row of the new id lists what its own body listed
FreshRowOwn(json, name, r, rows) ==
  (r.res.ok /\ rows.ok) =>
    \A i \in 1..Len(rows.value) :
      rows.value[i].o["id"] = JNum(r.res.id) =>
        Len(rows.value[i].o[name].a) = ListGiven(json, name)

\* the insert of the body has returned r; findMany then selects the list
InsertShown(sch, model, json, name, r) ==
  FreshRowOwn(json, name, r,
              Found(sch, r.trees, model,
                    JObj([n \in {"id", name} |-> JBool(TRUE)])))

\* C38: a document returned by get_all shows only the struct rows and
\* relations written for that document since its own insert: a newly
\* inserted document never exposes struct rows or join entries left behind
\* by an earlier, deleted document, including when a restart re-initialises
\* the counter and the same id is issued again.
C38_FreshRowOwn ==
  up => \A json \in UserBodies :
    InsertShown(schema, schema.models[1], json, "posts",
                handle(schema, db, db_counters, InsertCall(1, json)))

\* the depth of a compiled select: the includes nested in it
RECURSIVE SelectDepth(_)
SelectDepth(select) ==
  IF Len(select.includes) = 0 THEN 0
  ELSE 1 + MaxOf({SelectDepth(select.includes[k].select) :
                    k \in 1..Len(select.includes)})

\* the calls a call of process_data makes have selects below its own in the
\* select tree
CallsDescend ==
  (rpc = "walking" /\ rpc' = "walking") =>
    \A i \in 1..(Len(rcur') + 1 - Len(rcur)) :
      SelectDepth(rcur'[i].select) < SelectDepth(rcur[1].select)

\* C39: get_all terminates for every schema, schemas whose models reference
\* each other cyclically or themselves included, and for every stored data
\* set: the recursion of process_data descends one level of the finite
\* select tree per step and a selector of true carries no includes.
C39_GetAllTerminates ==
  /\ [][CallsDescend]_vars
  /\ [](parse_select(schema.models[1].fields, JBool(TRUE), schema).includes = <<>>)
  /\ (rpc = "walking") ~> (rpc \in {"done", "panicked"})

\* C39's case: a findMany with nested includes returned after calls of
\* process_data on a row that is its own parent
C39_Witness ==
  /\ rpc = "done"
  /\ Len(rout) >= 3
  /\ \E key \in RowKeys(snap, schema.models[1]) :
       StoredRef(snap, schema.models[1], schema.models[1].fields[2], key)
         = <<key>>

\* the keys of the listed elements of a Many effect that carry an id
SuppliedKeys(st, id) ==
  {make_key(id, st.data[k].id[1]) :
     k \in {j \in 1..Len(st.data) : st.data[j].id # <<>>}}

\* element k of the effect is in the tree: at the key of its supplied id, or
\* at a key of the parent that the tree did not hold before
ElementWritten(st, id, old, new, k) ==
  IF st.data[k].id # <<>>
  THEN /\ make_key(id, st.data[k].id[1]) \in DOMAIN new
       /\ new[make_key(id, st.data[k].id[1])] = st.data[k].data
  ELSE \E key \in DOMAIN new \ DOMAIN old :
         HasPrefix(key, IdKey(id)) /\ new[key] = st.data[k].data

\* the Many effect st of an update of id took old to new: the listed
\* elements are written and the rows not listed are as they were
ManyApplied(st, id, old, new) ==
  /\ \A k \in 1..Len(st.data) : ElementWritten(st, id, old, new, k)
  /\ \A key \in DOMAIN old \ SuppliedKeys(st, id) :
       key \in DOMAIN new /\ new[key] = old[key]

\* the update that the body asks of row id committed, and its Many effect
\* took its tree as ManyApplied says
ManyUpdateApplied(trees, id, enc, r) ==
  (enc.ok /\ Len(enc.structs) = 1 /\ r.res.ok) =>
    (enc.structs[1].kind = "Many" =>
       ManyApplied(enc.structs[1], id, trees[enc.structs[1].st.name],
                   r.trees[enc.structs[1].st.name]))

\* C40: an update carrying a Many struct effect writes each listed element
\* at (parent id, supplied id or freshly issued id), replacing the whole
\* stored row of a supplied id, and leaves every struct row of the same
\* parent that is not listed, and every row of other parents, unchanged.
C40_ManyWritesListed ==
  up => \A id \in Ids : \A json \in CardUpdates :
    ManyUpdateApplied(db, id, encode_document(schema.models[1], json, <<>>),
                      handle(schema, db, db_counters, UpdateCall(1, id, json)))

(***************************************************************************)
(* Concurrent runs on a self-referencing model,                            *)
(*   model Node { name String; parent Node }                               *)
(* Each thread serves one request.  insert_data takes its id from the      *)
(* counter, then opens the write transaction; the engine runs one write    *)
(* transaction at a time and publishes its writes at commit.  get_all      *)
(* reads row after row from the read transaction it began.                 *)
(***************************************************************************)
NumThreads == 2

\* the rows the data directory holds when the process starts
SeedRows == 2

Threads == 1..NumThreads

NodeBlocks ==
  <<Block("model", "Node",
          <<Line("name", "String", FALSE, FALSE, <<>>),
            Line("parent", "Node", FALSE, FALSE, <<>>)>>)>>

NodeSchema == parse_schema(NodeBlocks)

\* row k of the seed: the child of row k - 1
SeedBody(k) ==
  IF k = 1 THEN JObj([name |-> JStr(<<97>>)])
  ELSE JObj([name |-> JStr(<<97>>), parent |-> JId(k - 1)])

\* the schema, trees and counters MarciDB::new has returned
Opened(started) ==
  [sch |-> [models |-> started.models], trees |-> started.trees,
   counters |-> started.counters]

\* the database an insert has left that returned r
Sown(before, r) ==
  [sch |-> before.sch, trees |-> r.trees, counters |-> r.counters]

\* the database after the first n seed rows were inserted one by one
RECURSIVE Seeded(_)
RECURSIVE SeedRow(_, _)
Seeded(n) ==
  IF n = 0 THEN Opened(MarciDB_new(NodeSchema, <<>>))
  ELSE SeedRow(Seeded(n - 1), n)

\* the seeded database with row n inserted
SeedRow(before, n) ==
  Sown(before, handle(before.sch, before.trees, before.counters,
                      InsertCall(1, SeedBody(n))))

\* the process restarted on the seeded data directory
Reopened(seed) == Opened(MarciDB_new(seed.sch, seed.trees))

ConcStart == Reopened(Seeded(SeedRows))

\* the first id the run issues
FirstId == SeedRows + 1

\* the inserts of the run
NodeInserts ==
  {InsertCall(1, JObj([name |-> JStr(<<98>>)])),
   InsertCall(1, JObj([name |-> JStr(<<98>>), parent |-> JId(1)])),
   InsertCall(1, JObj([name |-> JStr(<<98>>), parent |-> JId(FirstId + 1)]))}

\* the updates and deletes of the run
NodeWrites ==
  {UpdateCall(1, 1, JObj([name |-> JStr(<<99>>)])),
   UpdateCall(1, FirstId, JObj([name |-> JStr(<<99>>)])),
   DeleteCall(1, 1),
   DeleteCall(1, FirstId)}

\* what the reader selects: id, name and the parent's name
NodeSelect(sch) ==
  parse_select(sch.models[1].fields,
               JObj([id |-> JBool(TRUE), name |-> JBool(TRUE),
                     parent |-> JObj([name |-> JBool(TRUE)])]),
               sch)

ConcBooted(start) ==
  /\ schema = start.sch
  /\ db = start.trees
  /\ db_counters = start.counters
  /\ up = TRUE
  /\ maxseen = [i \in DOMAIN start.counters |-> SeedRows]
  /\ call = [t \in Threads |-> <<>>]
  /\ pc = [t \in Threads |-> "idle"]
  /\ tid = [t \in Threads |-> 0]
  /\ tres = [t \in Threads |-> <<>>]
  /\ rpc = "idle"
  /\ snap = <<>>
  /\ rcur = <<>>
  /\ rout = <<>>
  /\ committed = {start.trees}
  /\ booted = [trees |-> start.trees, counters |-> start.counters]

ConcInit == CodecIdle /\ ConcBooted(ConcStart)

\* insert_data up to begin_write: the id is taken from the counter
TakeId(t, c) ==
  /\ pc[t] = "idle"
  /\ LET n == FetchAdd(db_counters, schema.models[c.model].counter_idx)
     IN /\ tid' = [tid EXCEPT ![t] = n.id]
        /\ db_counters' = n.counters
  /\ call' = [call EXCEPT ![t] = c]
  /\ pc' = [pc EXCEPT ![t] = "tx"]
  /\ UNCHANGED <<schema, db, up, maxseen, tres, rpc, snap, rcur, rout, committed,
                 booted>>
  /\ UNCHANGED cvars

\* the state thread t's write transaction leaves, or its early return: r
Committed(t, r) ==
  /\ db' = r.trees
  /\ db_counters' = r.counters
  /\ tres' = [tres EXCEPT ![t] = r.res]
  /\ committed' = committed \cup {r.trees}

\* the write transaction of thread t's insert, its document encoded to enc
InsertEncoded(t, enc) ==
  Committed(t, insert_tx(db, db_counters, schema, schema.models[call[t].model],
                         tid[t], enc.buf, enc.structs))

\* insert_data from begin_write to commit (or to the early return)
CommitInsert(t) ==
  /\ pc[t] = "tx"
  /\ InsertEncoded(t, encode_document(schema.models[call[t].model],
                                      call[t].json, <<>>))
  /\ pc' = [pc EXCEPT ![t] = "done"]
  /\ UNCHANGED <<schema, up, maxseen, call, tid, rpc, snap, rcur, rout, booted>>
  /\ UNCHANGED cvars

\* update or delete: all of it happens inside its write transaction
Write(t, c) ==
  /\ pc[t] = "idle"
  /\ Committed(t, handle(schema, db, db_counters, c))
  /\ call' = [call EXCEPT ![t] = c]
  /\ pc' = [pc EXCEPT ![t] = "done"]
  /\ UNCHANGED <<schema, up, maxseen, tid, rpc, snap, rcur, rout, booted>>
  /\ UNCHANGED cvars

\* a view that reads the live trees instead of the read transaction's
LiveView(rx, trees) == trees

\* what get_all and process_data read: the trees of the read transaction
ReadView(rx, trees) == rx

\* get_all: begin_read
BeginRead ==
  /\ rpc = "idle"
  /\ snap' = db
  /\ rpc' = "reading"
  /\ UNCHANGED <<svars, call, pc, tid, tres, rcur, rout, committed, booted>>
  /\ UNCHANGED cvars

\* the reader after process_data has returned item for the row at key
RowDecoded(key, item) ==
  IF ~item.ok
  THEN rpc' = "panicked" /\ UNCHANGED <<rcur, rout>>
  ELSE /\ rout' = Append(rout, item.value)
       /\ rcur' = <<key>>
       /\ rpc' = rpc

\* the row at key in the view, through process_data and the decoder
RowAt(view, model, key) ==
  RowDecoded(key, process_data(u64_from_be_bytes(key),
                               view[ModelTree(model)][key],
                               view, NodeSelect(schema), model))

\* the iterator's next row in the view: the first of the keys ahead
RowsAhead(view, model, ahead) ==
  IF ahead = {}
  THEN rpc' = "done" /\ UNCHANGED <<rcur, rout>>
  ELSE RowAt(view, model, SortKeys(ahead)[1])

\* the iterator over the model's tree in the view, from the cursor on
RowsOf(view, model) ==
  RowsAhead(view, model,
            {k \in DOMAIN view[ModelTree(model)] :
               rcur = <<>> \/ LexLess(rcur[1], k)})

\* get_all: the iterator's next row, through process_data and the decoder
ReadRow ==
  /\ rpc = "reading"
  /\ RowsOf(ReadView(snap, db), schema.models[1])
  /\ UNCHANGED <<svars, call, pc, tid, tres, snap, committed, booted>>
  /\ UNCHANGED cvars

ConcNext ==
  \/ \E t \in Threads : \E c \in NodeInserts : TakeId(t, c)
  \/ \E t \in Threads : CommitInsert(t)
  \/ \E t \in Threads : \E c \in NodeWrites : Write(t, c)
  \/ BeginRead
  \/ ReadRow

SpecConc == ConcInit /\ [][ConcNext]_vars

(***************************************************************************)
(* Claims about concurrent runs                                            *)
(***************************************************************************)
\* the calls of the threads served one after another in the order f, from
\* thread f[k] on: the trees and counters left and the result of each
RECURSIVE Sequential(_, _, _)
RECURSIVE SequentialNext(_, _, _, _)
Sequential(f, k, st) ==
  IF k > NumThreads THEN st
  ELSE SequentialNext(f, k, st,
                      handle(schema, st.trees, st.counters, call[f[k]]))

\* the sequential execution after the call of thread f[k] has returned r
SequentialNext(f, k, st, r) ==
  Sequential(f, k + 1,
             [trees |-> r.trees, counters |-> r.counters,
              res |-> [st.res EXCEPT ![f[k]] = r.res]])

\* the orders in which the threads' calls can be served one after another
Orders(S) == {f \in [S -> S] : \A t \in S : \E k \in S : f[k] = t}

\* the sequential execution of the threads' calls in the order f, from the
\* state the run started in
SequentialRun(f) ==
  Sequential(f, 1, [trees |-> booted.trees, counters |-> booted.counters,
                    res |-> [t \in Threads |-> <<>>]])

\* C5: every concurrent execution of insert_data, update and delete calls is
\* linearisable: the results and the final trees are those of some
\* sequential execution of the same calls.
C5_Linearisable ==
  (\A t \in Threads : pc[t] = "done") =>
    \E f \in Orders(Threads) :
      /\ SequentialRun(f).trees = db
      /\ \A t \in Threads : SequentialRun(f).res[t] = tres[t]

\* C6: a get_all that runs beside writers returns, parent rows and includes,
\* the contents of one committed state.
C6_OneCommittedState ==
  /\ rpc = "done" =>
       \E s \in committed :
         get_all(s, schema.models[1], NodeSelect(schema)) = [ok |-> TRUE, value |-> rout]
  /\ rpc = "panicked" =>
       \E s \in committed : ~get_all(s, schema.models[1], NodeSelect(schema)).ok

\* a read of two rows finished after a write committed behind its back
C6_Witness ==
  /\ rpc = "done"
  /\ Len(rout) >= 2
  /\ snap # db

\* two threads that took an id hold different ids
DistinctIds ==
  \A t \in Threads : \A u \in Threads :
    (t # u /\ pc[t] # "idle" /\ pc[u] # "idle"
       /\ call[t].op = "insert" /\ call[u].op = "insert")
      => tid[t] # tid[u]

\* a committing insert writes a key the tree does not hold
FreshRow ==
  \A t \in Threads :
    (pc[t] = "tx" /\ pc'[t] = "done" /\ tres'[t].ok)
      => IdKey(tid[t]) \notin RowKeys(db, schema.models[call[t].model])

\* C7: two insert_data calls on one model, however their steps interleave,
\* never return the same id, and no committed insert overwrites a row
\* another insert wrote.
C7_IdsNeverShared == [][DistinctIds' /\ FreshRow]_vars

\* both threads inserted and got their ids
C7_Witness ==
  \A t \in Threads : pc[t] = "done" /\ call[t].op = "insert" /\ tres[t].ok
====
